---- MODULE Spec2Model ----
(***************************************************************************)
(* Allocation & consensus coordinator of the swarm:                        *)
(*   - TaskDistributor  (auction engine: task queue, bids, assignment)     *)
(*   - ConsensusEngine  (voting engine: proposals, votes, reputations)     *)
(* Time is counted in whole minutes; every timing constant of the source   *)
(* is a whole number of minutes.  Weighted ratios are compared by cross    *)
(* multiplication, scores are kept as integers scaled by ScoreScale.       *)
(***************************************************************************)
EXTENDS Integers, Sequences, FiniteSets, TLC

(* ------------------------------ bounds --------------------------------- *)
MaxTime == 7
MaxAnnounces == 2
MaxCompleted == 1
MaxCreated == 2
MaxCompletions == 3
MaxAnnouncements == 2

TaskIds == {"t1", "t2"}
Bidders == {"a1", "a2"}
Caps == {"c1", "c2"}

ProposalIds == {"p1"}
Accounts == {"a1", "a2", "a3", "a4", "a5"}

(* ------------------------- program constants --------------------------- *)
VotingThresholdPct == 66
VotingPeriod == 5
MinParticipants == 3
ReputationWeighting == TRUE
SweepGrace == 1
ProposalRetention == 60
TotalPossibleVoters == 10
MaxRejectWeightPerVoter == 100
DefaultWeight == 50
StartingScore == 100
MaxScore == 200
CorrectVoteDelta == 5
ProposerBonus == 10
BidWindowDuration == 2
MaxBidsPerTask == 20
DefaultMinAgents == 1
DefaultMaxAgents == 5
OverloadLimit == 3
HighScorePct == 80
ScoreScale == 630000

VARIABLES
    now,               \* Date.now(), in minutes
    taskQueue,         \* TaskDistributor.taskQueue        : Map taskId -> Task
    agentBids,         \* TaskDistributor.agentBids        : Map taskId -> AgentBid[]
    agentProfiles,     \* TaskDistributor.agentProfiles    : Map agentId -> AgentProfile
    activeAssignments, \* TaskDistributor.activeAssignments: Map taskId -> TaskAssignment
    bidTimers,         \* task ids of the pending bid-window timers, in firing order
    onChain,           \* evaluateBidsAndAssign calls suspended at `await assignTaskOnChain`
    announces,         \* number of announceTask calls so far
    taskLog,           \* per task id: events emitted and assignments created so far,
                       \* and whether taskCancelled came after the last announcement
    successLog,        \* per agent: successful completions booked into its profile
    bidSubmitted,      \* number of bidSubmitted events emitted so far
    proposals,         \* ConsensusEngine.proposals   : Map proposalId -> ConsensusProposal
    reputations,       \* ConsensusEngine.reputations : Map accountId -> score
    evalTimers,        \* pending setTimeout callbacks for evaluateProposal
    proposeCalls,      \* proposeSolution calls suspended at `await broadcastProposal`
    voteCalls,         \* voteOnProposal calls suspended at `await broadcastVote`
    published,         \* CONSENSUS_PROPOSAL messages on the topic : proposalId -> message
    history,           \* per proposal id: what has happened to it so far
    configCapabilities,\* SwarmAgent.config.capabilities
    taskAnnounced,     \* tasks of the taskAnnounced events the agent emitted, in order
    bidCalls,          \* bidOnTask calls suspended at `await publishMessage`
    agentBidMessages,  \* tasks of the AGENT_BID messages the agent published, in order
    agentBidSubmitted  \* tasks of the bidSubmitted events the agent emitted, in order

auctionVars == <<taskQueue, agentBids, agentProfiles, activeAssignments,
                 bidTimers, onChain, announces, taskLog, bidSubmitted, successLog>>

consensusVars == <<proposals, reputations, evalTimers, proposeCalls, voteCalls,
                   published, history>>

agentVars == <<configCapabilities, taskAnnounced, bidCalls, agentBidMessages,
               agentBidSubmitted>>

vars == <<now, auctionVars, consensusVars, agentVars>>

(* ------------------------------ helpers -------------------------------- *)
Min(a, b) == IF a < b THEN a ELSE b
Max(a, b) == IF a > b THEN a ELSE b

\* Map.set(k, v)
MapSet(m, k, v) == [x \in (DOMAIN m) \cup {k} |-> IF x = k THEN v ELSE m[x]]
\* Map.delete(k)
MapDelete(m, k) == [x \in (DOMAIN m) \ {k} |-> m[x]]
EmptyMap == [x \in {} |-> 0]
\* a sequence without its k-th element
Remove(s, k) == SubSeq(s, 1, k - 1) \o SubSeq(s, k + 1, Len(s))

(* --------------------------- auction inputs ---------------------------- *)
\* The Task object announced under each task id (a repeated announcement of an id
\* carries the same task); minAgents/maxAgents 0 stands for an omitted optional field.
TaskInputs ==
    [t \in TaskIds |->
        IF t = "t1"
          THEN [requiredCapabilities |-> {"c1"}, bounty |-> 100, deadline |-> 10,
                minAgents |-> 0, maxAgents |-> 0]
          ELSE [requiredCapabilities |-> {"c1", "c2"}, bounty |-> 100, deadline |-> 10,
                minAgents |-> 2, maxAgents |-> 1]]

\* the capabilities each bidder declares in its bids
DeclaredCapabilities == [a \in Bidders |-> IF a = "a1" THEN {"c1"} ELSE {"c1", "c2"}]

\* AgentBid objects handed to submitBid; confidence is in tenths.
BidInputs ==
    { [agentId |-> a, taskId |-> t, estimatedTime |-> 1, requestedReward |-> 50,
       confidence |-> 9, capabilities |-> DeclaredCapabilities[a], reputation |-> 100] :
         a \in Bidders, t \in TaskIds }

\* Date.now() when a bid window closes (the tasks' deadline is 10)
EvalTimes == {2}

\* the agents whose profile is registered with updateAgentProfile; the others
\* stay unknown to the distributor
ProfiledAgents == {"a1"}

ProfileInputs ==
    { [activeTaskCount |-> n, completedTaskCount |-> 0, rateNum |-> 0, rateDen |-> 1] :
         n \in {0} }

(* --------------------------- TaskDistributor --------------------------- *)
\* a capability check satisfied by any one required capability
validateCapabilities_Some(agentCapabilities, requiredCapabilities) ==
    \E cap \in requiredCapabilities : cap \in agentCapabilities

\* validateCapabilities(agentCapabilities, requiredCapabilities)
validateCapabilities(agentCapabilities, requiredCapabilities) ==
    \A cap \in requiredCapabilities : cap \in agentCapabilities

\* a duplicate check that looks at the latest bid only
HasBid_LastOnly(bids, agentId) == bids # <<>> /\ bids[Len(bids)].agentId = agentId

\* bids.find(b => b.agentId === bid.agentId)
HasBid(bids, agentId) == \E i \in 1..Len(bids) : bids[i].agentId = agentId

\* calculateCapabilityScore, scaled by ScoreScale
calculateCapabilityScore(agentCapabilities, requiredCapabilities) ==
    LET matchCount == Cardinality(agentCapabilities \cap requiredCapabilities)
        extraCount == Cardinality(agentCapabilities) - matchCount
        matchScore == (matchCount * ScoreScale) \div Cardinality(requiredCapabilities)
        extraBonus == Min((extraCount * 5 * ScoreScale) \div 100, (2 * ScoreScale) \div 10)
    IN  Min(matchScore + extraBonus, ScoreScale)

\* Math.max(0, 1 - estimatedTime / (deadline - Date.now())), scaled by ScoreScale
timeScore(estimatedTime, remaining) ==
    IF remaining > 0
      THEN IF estimatedTime >= remaining THEN 0
           ELSE ((remaining - estimatedTime) * ScoreScale) \div remaining
      ELSE IF remaining = 0 THEN 0
      ELSE ((estimatedTime - remaining) * ScoreScale) \div (0 - remaining)

\* Math.min(bid.reputation / 100, 1), scaled by ScoreScale
reputationScore(reputation) == (Min(reputation, 100) * ScoreScale) \div 100

\* the score scoreBids gives one bid, scaled by ScoreScale
bidScore(bid, task, profiles, t) ==
    LET priceScaled == IF bid.requestedReward >= task.bounty THEN 0
                       ELSE ((task.bounty - bid.requestedReward) * ScoreScale) \div task.bounty
        capabilityScore == calculateCapabilityScore(bid.capabilities, task.requiredCapabilities)
        base == (4 * reputationScore(bid.reputation)) \div 10
                + (3 * bid.confidence * ScoreScale) \div 100
                + (3 * priceScaled) \div 10
                + (2 * capabilityScore) \div 10
                + timeScore(bid.estimatedTime, task.deadline - t) \div 10
    IN  IF bid.agentId \in DOMAIN profiles /\ profiles[bid.agentId].activeTaskCount > OverloadLimit
          THEN (base * 8) \div 10
          ELSE base

\* stable insertion of x into a sequence sorted by descending score
RECURSIVE InsertByScore(_, _)
InsertByScore(s, x) ==
    IF s = <<>> THEN <<x>>
    ELSE IF x.score > s[1].score THEN <<x>> \o s
    ELSE <<s[1]>> \o InsertByScore(Tail(s), x)

RECURSIVE SortByScore(_)
SortByScore(s) ==
    IF s = <<>> THEN <<>>
    ELSE InsertByScore(SortByScore(SubSeq(s, 1, Len(s) - 1)), s[Len(s)])

\* scoreBids(bids, task): bids with their score, sorted by descending score (stable)
scoreBids(bids, task, profiles, t) ==
    SortByScore([i \in 1..Len(bids) |->
        [agentId |-> bids[i].agentId, capabilities |-> bids[i].capabilities,
         score |-> bidScore(bids[i], task, profiles, t)]])

\* the greedy loop of selectOptimalAgents from position i on
RECURSIVE GreedySelect(_, _, _, _, _, _)
GreedySelect(scoredBids, i, selected, usedCapabilities, minAgents, maxAgents) ==
    IF i > Len(scoredBids) \/ Len(selected) >= maxAgents THEN selected
    ELSE LET bid == scoredBids[i]
             newCapabilities == bid.capabilities \ usedCapabilities
         IN  IF \/ Len(selected) < minAgents
                \/ newCapabilities # {}
                \/ bid.score * 100 > HighScorePct * ScoreScale
               THEN GreedySelect(scoredBids, i + 1, Append(selected, bid),
                                 usedCapabilities \cup bid.capabilities, minAgents, maxAgents)
               ELSE GreedySelect(scoredBids, i + 1, selected, usedCapabilities,
                                 minAgents, maxAgents)

\* a selection that gives up when the minimum cannot be met
selectOptimalAgents_AllOrNothing(scoredBids, minAgents, maxAgents) ==
    LET selected == GreedySelect(scoredBids, 1, <<>>, {}, minAgents, maxAgents)
    IN  IF Len(selected) >= minAgents THEN selected
        ELSE IF Len(scoredBids) >= minAgents THEN SubSeq(scoredBids, 1, minAgents)
        ELSE <<>>

\* selectOptimalAgents(scoredBids, minAgents, maxAgents)
selectOptimalAgents(scoredBids, minAgents, maxAgents) ==
    LET selected == GreedySelect(scoredBids, 1, <<>>, {}, minAgents, maxAgents)
    IN  IF Len(selected) < minAgents /\ Len(scoredBids) >= minAgents
          THEN SubSeq(scoredBids, 1, minAgents)
          ELSE selected

\* updateAgentTaskCount(agentId, delta)
updateAgentTaskCount(profiles, agentId, delta) ==
    IF agentId \in DOMAIN profiles
      THEN [profiles EXCEPT ![agentId].activeTaskCount = @ + delta]
      ELSE profiles

\* getAgentWorkload(agentId)
getAgentWorkload(profiles, agentId) ==
    IF agentId \in DOMAIN profiles THEN profiles[agentId].activeTaskCount ELSE 0

\* updateAgentTaskCount applied to assignedAgents[i..]
RECURSIVE UpdateCounts(_, _, _, _)
UpdateCounts(profiles, assignedAgents, i, delta) ==
    IF i > Len(assignedAgents) THEN profiles
    ELSE UpdateCounts(updateAgentTaskCount(profiles, assignedAgents[i], delta),
                      assignedAgents, i + 1, delta)

Logged(t, event) == [taskLog EXCEPT ![t][event] = @ + 1]

\* announceTask(task)
AnnounceTask(t, task) ==
    /\ announces < MaxAnnounces
    /\ announces' = announces + 1
    /\ taskQueue' = MapSet(taskQueue, t, task)
    /\ agentBids' = MapSet(agentBids, t, <<>>)
    /\ bidTimers' = Append(bidTimers, t)
    /\ taskLog' = [taskLog EXCEPT ![t].cancelled = FALSE]
    /\ UNCHANGED <<now, agentVars, consensusVars, successLog, agentProfiles, activeAssignments, onChain, bidSubmitted>>

\* the checks of submitBid without the capability validation
submitBidResult_NoCapabilityCheck(bid) ==
    IF bid.taskId \notin DOMAIN taskQueue THEN "UnknownTask"
    ELSE IF bid.taskId \in DOMAIN agentBids /\ HasBid(agentBids[bid.taskId], bid.agentId)
      THEN "DuplicateBid"
    ELSE "ok"

\* what submitBid(bid) does first: the error it throws, or "ok"
submitBidResult(bid) ==
    IF bid.taskId \notin DOMAIN taskQueue THEN "UnknownTask"
    ELSE IF bid.taskId \in DOMAIN agentBids /\ HasBid(agentBids[bid.taskId], bid.agentId)
      THEN "DuplicateBid"
    ELSE IF ~validateCapabilities(bid.capabilities, taskQueue[bid.taskId].requiredCapabilities)
      THEN "CapabilityMismatch"
    ELSE "ok"

\* submitBid(bid)
SubmitBid(bid) ==
    /\ IF submitBidResult(bid) = "ok"
         THEN LET bids == IF bid.taskId \in DOMAIN agentBids
                            THEN agentBids[bid.taskId] ELSE <<>>
              IN  /\ agentBids' = MapSet(agentBids, bid.taskId, Append(bids, bid))
                  /\ bidSubmitted' = bidSubmitted + 1
         ELSE UNCHANGED <<agentBids, bidSubmitted>>
    /\ UNCHANGED <<now, agentVars, consensusVars, successLog, taskQueue, agentProfiles, activeAssignments, bidTimers,
                   onChain, announces, taskLog>>

\* a test that only looks for a missing task or bid list
NoValidBids_MissingOnly(t) == t \notin DOMAIN taskQueue \/ t \notin DOMAIN agentBids

\* !task || !bids || bids.length === 0
NoValidBids(t) ==
    t \notin DOMAIN taskQueue \/ t \notin DOMAIN agentBids \/ agentBids[t] = <<>>

\* evaluateBidsAndAssign(taskId), from the timer callback up to `await assignTaskOnChain`;
\* clock is Date.now() at that moment
EvaluateBidsAndAssign(clock) ==
    LET t == Head(bidTimers) IN
    /\ bidTimers # <<>>
    /\ bidTimers' = Tail(bidTimers)
    /\ IF NoValidBids(t)
         THEN /\ taskLog' = Logged(t, "failedNoBids")
              /\ UNCHANGED <<activeAssignments, onChain>>
       ELSE LET task == taskQueue[t]
                scoredBids == scoreBids(agentBids[t], task, agentProfiles, clock)
                selectedAgents == selectOptimalAgents(scoredBids,
                    IF task.minAgents = 0 THEN DefaultMinAgents ELSE task.minAgents,
                    IF task.maxAgents = 0 THEN DefaultMaxAgents ELSE task.maxAgents)
                assignedAgents == [i \in 1..Len(selectedAgents) |-> selectedAgents[i].agentId]
            IN  IF selectedAgents = <<>>
                  THEN /\ taskLog' = Logged(t, "failedNoSuitable")
                       /\ UNCHANGED <<activeAssignments, onChain>>
                ELSE /\ activeAssignments' = MapSet(activeAssignments, t,
                            [assignedAgents |-> assignedAgents, totalReward |-> task.bounty,
                             deadline |-> task.deadline])
                     /\ taskLog' = Logged(t, "created")
                     /\ onChain' = Append(onChain, [taskId |-> t,
                                                     assignedAgents |-> assignedAgents])
    /\ UNCHANGED <<now, agentVars, consensusVars, successLog, taskQueue, agentBids, agentProfiles, announces, bidSubmitted>>

\* evaluateBidsAndAssign resumed after assignTaskOnChain resolved
AssignOnChainDone(k) ==
    LET call == onChain[k] IN
    /\ onChain' = Remove(onChain, k)
    /\ agentProfiles' = UpdateCounts(agentProfiles, call.assignedAgents, 1, 1)
    /\ taskLog' = Logged(call.taskId, "taskAssigned")
    /\ taskQueue' = MapDelete(taskQueue, call.taskId)
    /\ agentBids' = MapDelete(agentBids, call.taskId)
    /\ UNCHANGED <<now, agentVars, consensusVars, successLog, activeAssignments, bidTimers, announces, bidSubmitted>>

\* assignTaskOnChain rejected: evaluateBidsAndAssign ends at the await
AssignOnChainFail(k) ==
    /\ onChain' = Remove(onChain, k)
    /\ UNCHANGED <<now, agentVars, consensusVars, successLog, taskQueue, agentBids, agentProfiles, activeAssignments,
                   bidTimers, announces, taskLog, bidSubmitted>>

\* updateAgentProfile(profile)
UpdateAgentProfile(a, profile) ==
    /\ a \notin DOMAIN agentProfiles
    /\ agentProfiles' = MapSet(agentProfiles, a, profile)
    /\ UNCHANGED <<now, agentVars, consensusVars, successLog, taskQueue, agentBids, activeAssignments, bidTimers,
                   onChain, announces, taskLog, bidSubmitted>>

\* a completion that leaves the success rate alone when the task failed
completedProfile_KeepRateOnFailure(profile, success) ==
    LET n == profile.completedTaskCount + 1
    IN  [activeTaskCount |-> Max(0, profile.activeTaskCount - 1),
         completedTaskCount |-> n,
         rateNum |-> IF success THEN profile.rateNum * (n - 1) + profile.rateDen
                     ELSE profile.rateNum,
         rateDen |-> IF success THEN profile.rateDen * n ELSE profile.rateDen]

\* the profile update of handleTaskCompletion; successRate is rateNum / rateDen
completedProfile(profile, success) ==
    LET n == profile.completedTaskCount + 1
    IN  [activeTaskCount |-> Max(0, profile.activeTaskCount - 1),
         completedTaskCount |-> n,
         rateNum |-> profile.rateNum * (n - 1) + (IF success THEN profile.rateDen ELSE 0),
         rateDen |-> profile.rateDen * n]

\* handleTaskCompletion(taskId, agentId, success)
HandleTaskCompletion(t, a, success) ==
    /\ IF t \in DOMAIN activeAssignments /\ a \in DOMAIN agentProfiles
         THEN /\ agentProfiles' = [agentProfiles EXCEPT
                                      ![a] = completedProfile(agentProfiles[a], success)]
              /\ successLog' = [successLog EXCEPT ![a] = @ + (IF success THEN 1 ELSE 0)]
         ELSE UNCHANGED <<agentProfiles, successLog>>
    /\ UNCHANGED <<now, agentVars, consensusVars, taskQueue, agentBids, activeAssignments, bidTimers,
                   onChain, announces, taskLog, bidSubmitted>>

\* agent a has fewer than bound completions in its profile (or no profile)
CompletedBelow(a, bound) ==
    a \in DOMAIN agentProfiles => agentProfiles[a].completedTaskCount < bound

\* cancelTask(taskId, reason)
CancelTask(t) ==
    /\ taskQueue' = MapDelete(taskQueue, t)
    /\ agentBids' = MapDelete(agentBids, t)
    /\ IF t \in DOMAIN activeAssignments
         THEN /\ agentProfiles' = UpdateCounts(agentProfiles,
                                     activeAssignments[t].assignedAgents, 1, -1)
              /\ activeAssignments' = MapDelete(activeAssignments, t)
         ELSE UNCHANGED <<agentProfiles, activeAssignments>>
    /\ taskLog' = [taskLog EXCEPT ![t].cancelled = TRUE]
    /\ UNCHANGED <<now, agentVars, consensusVars, successLog, bidTimers, onChain, announces, bidSubmitted>>

\* a SwarmAgent without capabilities that has received no message
IdleAgent ==
    /\ configCapabilities = {}
    /\ taskAnnounced = <<>>
    /\ bidCalls = <<>>
    /\ agentBidMessages = <<>>
    /\ agentBidSubmitted = <<>>

\* the ConsensusEngine before any proposal
IdleConsensus ==
    /\ proposals = EmptyMap
    /\ evalTimers = {}
    /\ proposeCalls = {}
    /\ voteCalls = {}
    /\ published = EmptyMap
    /\ history = [p \in ProposalIds |-> [created |-> 0, first |-> "none", early |-> FALSE,
                                          consensusReached |-> 0, lateVotes |-> 0]]

InitAuction ==
    /\ now = 0
    /\ IdleConsensus
    /\ IdleAgent
    /\ reputations = EmptyMap
    /\ taskQueue = EmptyMap
    /\ agentBids = EmptyMap
    /\ agentProfiles = EmptyMap
    /\ activeAssignments = EmptyMap
    /\ bidTimers = <<>>
    /\ onChain = <<>>
    /\ announces = 0
    /\ bidSubmitted = 0
    /\ successLog = [a \in Bidders |-> 0]
    /\ taskLog = [t \in TaskIds |-> [taskAssigned |-> 0,
                                     failedNoBids |-> 0, failedNoSuitable |-> 0,
                                     created |-> 0, cancelled |-> FALSE]]

NextAuction ==
    \/ \E t \in TaskIds : AnnounceTask(t, TaskInputs[t])
    \/ \E bid \in BidInputs : SubmitBid(bid)
    \/ \E clock \in EvalTimes : EvaluateBidsAndAssign(clock)
    \/ \E k \in 1..Len(onChain) : AssignOnChainDone(k)
    \/ \E k \in 1..Len(onChain) : AssignOnChainFail(k)
    \/ \E a \in ProfiledAgents, profile \in ProfileInputs : UpdateAgentProfile(a, profile)
    \/ \E t \in TaskIds, a \in Bidders, success \in BOOLEAN :
            CompletedBelow(a, MaxCompleted) /\ HandleTaskCompletion(t, a, success)
    \/ \E t \in TaskIds : CancelTask(t)

SpecAuction == InitAuction /\ [][NextAuction]_vars

(* ------------------- TaskDistributor: bid evaluation ------------------- *)
\* The distributor at the end of a bid window, for every bid set out of a small
\* family: task t1 is open, its bids have been accepted by submitBid in the order
\* a1, a2, a3, and its bid-window timer is about to fire.
SelectionBidders == <<"a1", "a2", "a3">>

\* what a bidder may have put in its bid: a strong bid, a weak bid, and a weak bid
\* declaring an extra capability
BidVariants ==
    { [estimatedTime |-> 1, requestedReward |-> 50, confidence |-> 9,
       capabilities |-> {"c1"}, reputation |-> 100],
      [estimatedTime |-> 1, requestedReward |-> 50, confidence |-> 2,
       capabilities |-> {"c1"}, reputation |-> 10],
      [estimatedTime |-> 1, requestedReward |-> 50, confidence |-> 2,
       capabilities |-> {"c1", "c2"}, reputation |-> 10] }

\* the bid sets: the first n bidders each submitted one variant
SelectionBidSets ==
    UNION { { [i \in 1..n |->
                 [agentId |-> SelectionBidders[i], taskId |-> "t1",
                  estimatedTime |-> v[i].estimatedTime,
                  requestedReward |-> v[i].requestedReward,
                  confidence |-> v[i].confidence,
                  capabilities |-> v[i].capabilities,
                  reputation |-> v[i].reputation]] : v \in [1..n -> BidVariants] } :
            n \in 0..Len(SelectionBidders) }

\* the announced task: minAgents / maxAgents omitted (0) or given
SelectionTasks ==
    { [requiredCapabilities |-> {"c1"}, bounty |-> 100, deadline |-> 10,
       minAgents |-> lo, maxAgents |-> hi] : lo \in 0..2, hi \in 0..2 }

\* the registered profiles: none, or a1 with more than three active tasks
SelectionProfiles ==
    { EmptyMap,
      MapSet(EmptyMap, "a1", [activeTaskCount |-> 4, completedTaskCount |-> 0,
                              rateNum |-> 0, rateDen |-> 1]) }

InitSelection ==
    /\ now = 0
    /\ IdleConsensus
    /\ IdleAgent
    /\ reputations = EmptyMap
    /\ taskQueue \in { MapSet(EmptyMap, "t1", task) : task \in SelectionTasks }
    /\ agentBids \in { MapSet(EmptyMap, "t1", bids) : bids \in SelectionBidSets }
    /\ agentProfiles \in SelectionProfiles
    /\ activeAssignments = EmptyMap
    /\ bidTimers = <<"t1">>
    /\ onChain = <<>>
    /\ announces = 1
    /\ bidSubmitted = Len(agentBids["t1"])
    /\ successLog = [a \in Bidders |-> 0]
    /\ taskLog = [t \in TaskIds |-> [taskAssigned |-> 0,
                                     failedNoBids |-> 0, failedNoSuitable |-> 0,
                                     created |-> 0, cancelled |-> FALSE]]

NextSelection ==
    \/ \E clock \in EvalTimes : EvaluateBidsAndAssign(clock)
    \/ \E k \in 1..Len(onChain) : AssignOnChainDone(k)
    \/ \E k \in 1..Len(onChain) : AssignOnChainFail(k)

SpecSelection == InitSelection /\ [][NextSelection]_vars

(* ------------------- TaskDistributor: many bidders --------------------- *)
\* Both tasks are open and one bidder more than maxBidsPerTask wants to bid on
\* each of them; the bidders of a task submit one after the other.
CrowdSize == MaxBidsPerTask + 1

\* the bid of the n-th bidder for task t
CrowdBid(t, n) ==
    [agentId |-> ToString(n), taskId |-> t, estimatedTime |-> 1, requestedReward |-> 50,
     confidence |-> 9, capabilities |-> Caps, reputation |-> 100]

\* the bids that may come next: for each open task, that of its next bidder
CrowdBids ==
    { CrowdBid(t, Len(agentBids[t]) + 1) :
         t \in { u \in DOMAIN agentBids : Len(agentBids[u]) < CrowdSize } }

InitCrowd ==
    /\ now = 0
    /\ IdleConsensus
    /\ IdleAgent
    /\ reputations = EmptyMap
    /\ taskQueue = TaskInputs
    /\ agentBids = [t \in TaskIds |-> <<>>]
    /\ agentProfiles = EmptyMap
    /\ activeAssignments = EmptyMap
    /\ bidTimers = <<"t1", "t2">>
    /\ onChain = <<>>
    /\ announces = 2
    /\ bidSubmitted = 0
    /\ successLog = [a \in Bidders |-> 0]
    /\ taskLog = [t \in TaskIds |-> [taskAssigned |-> 0,
                                     failedNoBids |-> 0, failedNoSuitable |-> 0,
                                     created |-> 0, cancelled |-> FALSE]]

NextCrowd == \E bid \in CrowdBids : SubmitBid(bid)

SpecCrowd == InitCrowd /\ [][NextCrowd]_vars

(* ------------- TaskDistributor: evaluation near the deadline ----------- *)
\* The distributor at the end of a bid window of a task whose deadline lies before
\* the evaluation time, at it, or well after it (announceTask accepts any deadline).
OverdueTasks ==
    { [requiredCapabilities |-> {"c1"}, bounty |-> 100, deadline |-> d,
       minAgents |-> 0, maxAgents |-> 0] : d \in {1, 2, 10} }

InitOverdue ==
    /\ now = 0
    /\ IdleConsensus
    /\ IdleAgent
    /\ reputations = EmptyMap
    /\ taskQueue \in { MapSet(EmptyMap, "t1", task) : task \in OverdueTasks }
    /\ agentBids \in { MapSet(EmptyMap, "t1", bids) : bids \in SelectionBidSets }
    /\ agentProfiles = EmptyMap
    /\ activeAssignments = EmptyMap
    /\ bidTimers = <<"t1">>
    /\ onChain = <<>>
    /\ announces = 1
    /\ bidSubmitted = Len(agentBids["t1"])
    /\ successLog = [a \in Bidders |-> 0]
    /\ taskLog = [t \in TaskIds |-> [taskAssigned |-> 0,
                                     failedNoBids |-> 0, failedNoSuitable |-> 0,
                                     created |-> 0, cancelled |-> FALSE]]

NextOverdue ==
    \/ \E clock \in EvalTimes : EvaluateBidsAndAssign(clock)
    \/ \E k \in 1..Len(onChain) : AssignOnChainDone(k)
    \/ \E k \in 1..Len(onChain) : AssignOnChainFail(k)

SpecOverdue == InitOverdue /\ [][NextOverdue]_vars

(* ------------------- TaskDistributor: task completion ------------------ *)
\* The distributor after task t1 was assigned to a1 and a2, both registered with a
\* profile that has no completed task yet: up to two active tasks, and a success
\* rate of 0 or 1 as handed to updateAgentProfile.
CompletionProfiles ==
    { [activeTaskCount |-> n, completedTaskCount |-> 0, rateNum |-> r, rateDen |-> 1] :
         n \in 0..2, r \in 0..1 }

InitCompletion ==
    /\ now = 0
    /\ IdleConsensus
    /\ IdleAgent
    /\ reputations = EmptyMap
    /\ taskQueue = EmptyMap
    /\ agentBids = EmptyMap
    /\ agentProfiles \in [Bidders -> CompletionProfiles]
    /\ activeAssignments = MapSet(EmptyMap, "t1",
            [assignedAgents |-> <<"a1", "a2">>, totalReward |-> 100, deadline |-> 10])
    /\ bidTimers = <<>>
    /\ onChain = <<>>
    /\ announces = 1
    /\ bidSubmitted = 2
    /\ successLog = [a \in Bidders |-> 0]
    /\ taskLog = [t \in TaskIds |->
                    [taskAssigned |-> IF t = "t1" THEN 1 ELSE 0,
                     failedNoBids |-> 0, failedNoSuitable |-> 0,
                     created |-> IF t = "t1" THEN 1 ELSE 0, cancelled |-> FALSE]]

NextCompletion ==
    \E t \in TaskIds, a \in Bidders, success \in BOOLEAN :
        CompletedBelow(a, MaxCompletions) /\ HandleTaskCompletion(t, a, success)

SpecCompletion == InitCompletion /\ [][NextCompletion]_vars

(* ---------------------------- ConsensusEngine -------------------------- *)
\* the account this engine proposes and votes for; the other accounts' proposals
\* and votes arrive as messages of the consensus topic
LocalAccount == "a1"
RemoteProposer == "a2"

\* reputation data handed to loadReputations before the first proposal
InitialReputations ==
    { [a \in Accounts |-> MaxScore],
      [a \in Accounts \ {"a1"} |->
          IF a = "a2" THEN 0 ELSE IF a = "a3" THEN 1 ELSE IF a = "a4" THEN 199 ELSE MaxScore] }

\* getAgentWeight(accountId)
getAgentWeight(ledger, accountId) ==
    IF ~ReputationWeighting THEN 1
    ELSE IF accountId \notin DOMAIN ledger THEN DefaultWeight
    ELSE ledger[accountId]

\* vote.weight added up over the given voters of a vote map
RECURSIVE SumOver(_, _)
SumOver(votes, voters) ==
    IF voters = {} THEN 0
    ELSE LET v == CHOOSE x \in voters : TRUE
         IN  votes[v] + SumOver(votes, voters \ {v})

\* the sum of vote.weight over a vote map
SumWeights(votes) == SumOver(votes, DOMAIN votes)

TotalVotes(proposal) ==
    Cardinality(DOMAIN proposal.supporters) + Cardinality(DOMAIN proposal.rejectors)

\* a tally without the minimum-participation check
calculateConsensus_NoQuorum(proposal) ==
    LET supportWeight == SumWeights(proposal.supporters)
        totalWeight == supportWeight + SumWeights(proposal.rejectors)
    IN  totalWeight > 0 /\ 100 * supportWeight >= VotingThresholdPct * totalWeight

\* calculateConsensus(proposal).accepted
calculateConsensus(proposal) ==
    LET supportWeight == SumWeights(proposal.supporters)
        rejectWeight == SumWeights(proposal.rejectors)
        totalWeight == supportWeight + rejectWeight
    IN  IF TotalVotes(proposal) < MinParticipants THEN FALSE
        ELSE /\ totalWeight > 0
             /\ 100 * supportWeight >= VotingThresholdPct * totalWeight

\* the test of checkEarlyConsensus: worstCaseSupport >= votingThreshold
worstCaseSupportMet(proposal) ==
    LET currentSupportWeight == SumWeights(proposal.supporters)
        currentRejectWeight == SumWeights(proposal.rejectors)
        remainingVoters == TotalPossibleVoters - TotalVotes(proposal)
        maxPossibleRejectWeight == remainingVoters * MaxRejectWeightPerVoter
        total == currentSupportWeight + currentRejectWeight + maxPossibleRejectWeight
    IN  IF total > 0 THEN 100 * currentSupportWeight >= VotingThresholdPct * total
        ELSE total = 0 /\ currentSupportWeight > 0

\* an adjustment clamped at the top only
adjustReputation_NoFloor(ledger, accountId, delta) ==
    LET score == IF accountId \in DOMAIN ledger THEN ledger[accountId] ELSE StartingScore
    IN  MapSet(ledger, accountId, Min(MaxScore, score + delta))

\* adjustReputation(accountId, delta)
adjustReputation(ledger, accountId, delta) ==
    LET score == IF accountId \in DOMAIN ledger THEN ledger[accountId] ELSE StartingScore
    IN  MapSet(ledger, accountId, Max(0, Min(MaxScore, score + delta)))

\* adjustReputation applied once to every voter of a vote map: each call changes
\* the entry of its own voter only
AdjustAll(ledger, voters, delta) ==
    [a \in DOMAIN ledger \cup voters |->
        IF a \in voters THEN adjustReputation(ledger, a, delta)[a] ELSE ledger[a]]

\* an update that pays the proposer bonus whatever the outcome
updateReputations_BonusAlways(ledger, proposal, accepted) ==
    LET correctVoters == IF accepted THEN proposal.supporters ELSE proposal.rejectors
        incorrectVoters == IF accepted THEN proposal.rejectors ELSE proposal.supporters
        voted == AdjustAll(AdjustAll(ledger, DOMAIN correctVoters, CorrectVoteDelta),
                           DOMAIN incorrectVoters, -2)
    IN  adjustReputation(voted, proposal.proposer, ProposerBonus)

\* updateReputations(proposal, accepted)
updateReputations(ledger, proposal, accepted) ==
    LET correctVoters == IF accepted THEN proposal.supporters ELSE proposal.rejectors
        incorrectVoters == IF accepted THEN proposal.rejectors ELSE proposal.supporters
        voted == AdjustAll(AdjustAll(ledger, DOMAIN correctVoters, CorrectVoteDelta),
                           DOMAIN incorrectVoters, -2)
    IN  IF accepted THEN adjustReputation(voted, proposal.proposer, ProposerBonus)
        ELSE voted

\* a new pending proposal without any vote
NewProposal_NoProposerVote(proposer, deadline) ==
    [proposer |-> proposer, deadline |-> deadline, status |-> "pending",
     supporters |-> EmptyMap, rejectors |-> EmptyMap]

\* a new pending proposal with its proposer as first supporter
NewProposal(proposer, deadline) ==
    [proposer |-> proposer, deadline |-> deadline, status |-> "pending",
     supporters |-> MapSet(EmptyMap, proposer, getAgentWeight(reputations, proposer)),
     rejectors |-> EmptyMap]

Created(hist, p) == [hist EXCEPT ![p].created = @ + 1, ![p].early = FALSE]

\* evaluateProposal(proposalId) on the proposals ps, when it passes its guard
Finalize(ps, hist, p, early) ==
    LET accepted == calculateConsensus(ps[p])
        status == IF accepted THEN "accepted" ELSE "rejected"
    IN  /\ proposals' = [ps EXCEPT ![p].status = status]
        /\ reputations' = updateReputations(reputations, ps[p], accepted)
        /\ history' = [hist EXCEPT ![p].consensusReached = @ + 1,
                                   ![p].first = IF @ = "none" THEN status ELSE @,
                                   ![p].early = early /\ now <= ps[p].deadline]

\* checkEarlyConsensus(proposalId) on the proposals ps
checkEarlyConsensus(ps, hist, p) ==
    IF p \in DOMAIN ps /\ ps[p].status = "pending" /\ worstCaseSupportMet(ps[p])
      THEN Finalize(ps, hist, p, TRUE)
      ELSE /\ proposals' = ps
           /\ history' = hist
           /\ UNCHANGED reputations

\* proposeSolution(taskId, solution, proposerAccount), up to `await broadcastProposal`;
\* p is the fresh uuid
ProposeSolution(p) ==
    /\ history[p].created = 0
    /\ p \notin DOMAIN published
    /\ proposals' = MapSet(proposals, p, NewProposal(LocalAccount, now + VotingPeriod))
    /\ proposeCalls' = proposeCalls \cup {p}
    /\ history' = Created(history, p)
    /\ UNCHANGED <<now, agentVars, auctionVars, reputations, evalTimers, voteCalls, published>>

\* proposeSolution resumed after broadcastProposal resolved
ProposeBroadcastDone(p) ==
    /\ p \in proposeCalls
    /\ proposeCalls' = proposeCalls \ {p}
    /\ published' = MapSet(published, p,
                           [proposer |-> LocalAccount, deadline |-> proposals[p].deadline])
    /\ evalTimers' = evalTimers \cup {[proposalId |-> p, at |-> now + VotingPeriod]}
    /\ UNCHANGED <<now, agentVars, auctionVars, proposals, reputations, voteCalls, history>>

\* broadcastProposal rejected: proposeSolution ends at the await
ProposeBroadcastFail(p) ==
    /\ p \in proposeCalls
    /\ proposeCalls' = proposeCalls \ {p}
    /\ UNCHANGED <<now, agentVars, auctionVars, proposals, reputations, evalTimers, voteCalls,
                   published, history>>

\* a duplicate check that looks at the supporters only
alreadyVoted_SupportersOnly(proposal, voter) == voter \in DOMAIN proposal.supporters

\* proposal.supporters.has(voter) || proposal.rejectors.has(voter)
alreadyVoted(proposal, voter) ==
    voter \in DOMAIN proposal.supporters \/ voter \in DOMAIN proposal.rejectors

\* the checks of a vote call without the deadline check
voteResult_NoExpiryCheck(p, voterAccount) ==
    IF p \notin DOMAIN proposals THEN "UnknownProposal"
    ELSE IF proposals[p].status # "pending" THEN "ProposalNotPending"
    ELSE IF alreadyVoted(proposals[p], voterAccount) THEN "DuplicateVote"
    ELSE "ok"

\* what voteOnProposal(proposalId, voterAccount, ...) does first: the error it
\* throws, or "ok"
voteResult(p, voterAccount) ==
    IF p \notin DOMAIN proposals THEN "UnknownProposal"
    ELSE IF proposals[p].status # "pending" THEN "ProposalNotPending"
    ELSE IF now > proposals[p].deadline THEN "VotingExpired"
    ELSE IF alreadyVoted(proposals[p], voterAccount) THEN "DuplicateVote"
    ELSE "ok"

\* proposal.supporters.set / proposal.rejectors.set
RecordVote(ps, p, voter, support) ==
    IF support
      THEN [ps EXCEPT ![p].supporters = MapSet(@, voter, getAgentWeight(reputations, voter))]
      ELSE [ps EXCEPT ![p].rejectors = MapSet(@, voter, getAgentWeight(reputations, voter))]

\* a vote call that charges the voter's reputation for a refused vote
VoteOnProposal_PenalizeRefused(p, support) ==
    /\ IF voteResult(p, LocalAccount) = "ok"
         THEN /\ proposals' = RecordVote(proposals, p, LocalAccount, support)
              /\ voteCalls' = voteCalls \cup {p}
              /\ UNCHANGED reputations
         ELSE /\ reputations' = adjustReputation(reputations, LocalAccount, -2)
              /\ UNCHANGED <<proposals, voteCalls>>
    /\ UNCHANGED <<now, agentVars, auctionVars, evalTimers, proposeCalls, published, history>>

\* voteOnProposal(proposalId, voterAccount, support), up to `await broadcastVote`
VoteOnProposal(p, support) ==
    /\ IF voteResult(p, LocalAccount) = "ok"
         THEN /\ proposals' = RecordVote(proposals, p, LocalAccount, support)
              /\ voteCalls' = voteCalls \cup {p}
         ELSE UNCHANGED <<proposals, voteCalls>>
    /\ UNCHANGED <<now, agentVars, auctionVars, reputations, evalTimers, proposeCalls, published,
                   history>>

\* voteOnProposal resumed after broadcastVote resolved
VoteBroadcastDone(p) ==
    /\ p \in voteCalls
    /\ voteCalls' = voteCalls \ {p}
    /\ checkEarlyConsensus(proposals, history, p)
    /\ UNCHANGED <<now, agentVars, auctionVars, evalTimers, proposeCalls, published>>

\* broadcastVote rejected: voteOnProposal ends at the await
VoteBroadcastFail(p) ==
    /\ p \in voteCalls
    /\ voteCalls' = voteCalls \ {p}
    /\ UNCHANGED <<now, agentVars, auctionVars, proposals, reputations, evalTimers, proposeCalls,
                   published, history>>

\* the setTimeout callback of proposeSolution / handleRemoteProposal: evaluateProposal
EvaluateProposal(timer) ==
    LET p == timer.proposalId IN
    /\ timer \in evalTimers
    /\ now >= timer.at
    /\ evalTimers' = evalTimers \ {timer}
    /\ IF p \in DOMAIN proposals /\ proposals[p].status = "pending"
         THEN Finalize(proposals, history, p, FALSE)
         ELSE UNCHANGED <<proposals, reputations, history>>
    /\ UNCHANGED <<now, agentVars, auctionVars, proposeCalls, voteCalls, published>>

\* the CONSENSUS_PROPOSAL messages another account may publish under a new id
RemoteProposalMessages ==
    { [proposer |-> RemoteProposer, deadline |-> d] :
         d \in {now + VotingPeriod, now - ProposalRetention} }

\* handleRemoteProposal(proposalData)
HandleRemoteProposal(p, msg) ==
    /\ IF p \in DOMAIN published
         THEN msg = published[p]
         ELSE history[p].created = 0 /\ msg \in RemoteProposalMessages
    /\ published' = MapSet(published, p, msg)
    /\ IF p \in DOMAIN proposals
         THEN UNCHANGED <<proposals, evalTimers, history>>
         ELSE /\ history[p].created < MaxCreated
              /\ proposals' = MapSet(proposals, p, NewProposal(msg.proposer, msg.deadline))
              /\ history' = Created(history, p)
              /\ evalTimers' = IF msg.deadline - now > 0
                                 THEN evalTimers \cup {[proposalId |-> p, at |-> msg.deadline]}
                                 ELSE evalTimers
    /\ UNCHANGED <<now, agentVars, auctionVars, reputations, proposeCalls, voteCalls>>

\* handleRemoteVote(proposalId, voteData)
HandleRemoteVote(p, voter, support) ==
    /\ IF /\ p \in DOMAIN proposals
          /\ proposals[p].status = "pending"
          /\ ~alreadyVoted(proposals[p], voter)
         THEN checkEarlyConsensus(
                  RecordVote(proposals, p, voter, support),
                  IF now > proposals[p].deadline
                    THEN [history EXCEPT ![p].lateVotes = @ + 1] ELSE history,
                  p)
         ELSE UNCHANGED <<proposals, reputations, history>>
    /\ UNCHANGED <<now, agentVars, auctionVars, evalTimers, proposeCalls, voteCalls, published>>

\* a sweep that never expires a proposal
SweptStatus_Never(proposal) == proposal.status

\* one pass of the loop body of cleanupExpiredProposals over proposal p
SweptStatus(proposal) ==
    IF proposal.status = "pending" /\ now > proposal.deadline + SweepGrace
      THEN "expired" ELSE proposal.status

\* a sweep that books an expired proposal as a rejection in the ledger
CleanupExpiredProposals_Penalize ==
    LET kept == { p \in DOMAIN proposals :
                    ~(SweptStatus(proposals[p]) # "pending"
                      /\ now > proposals[p].deadline + ProposalRetention) }
        expired == { p \in DOMAIN proposals : SweptStatus(proposals[p]) # proposals[p].status }
    IN  /\ proposals' = [p \in kept |-> [proposals[p] EXCEPT !.status = SweptStatus(proposals[p])]]
        /\ history' = [p \in ProposalIds |->
                          IF p \in expired /\ history[p].first = "none"
                            THEN [history[p] EXCEPT !.first = "expired"]
                            ELSE history[p]]
        /\ reputations' = IF expired = {} THEN reputations
                          ELSE updateReputations(reputations,
                                                 proposals[CHOOSE p \in expired : TRUE], FALSE)
        /\ UNCHANGED <<now, agentVars, auctionVars, evalTimers, proposeCalls, voteCalls, published>>

\* cleanupExpiredProposals()
CleanupExpiredProposals ==
    LET kept == { p \in DOMAIN proposals :
                    ~(SweptStatus(proposals[p]) # "pending"
                      /\ now > proposals[p].deadline + ProposalRetention) }
        expired == { p \in DOMAIN proposals : SweptStatus(proposals[p]) # proposals[p].status }
    IN  /\ proposals' = [p \in kept |-> [proposals[p] EXCEPT !.status = SweptStatus(proposals[p])]]
        /\ history' = [p \in ProposalIds |->
                          IF p \in expired /\ history[p].first = "none"
                            THEN [history[p] EXCEPT !.first = "expired"]
                            ELSE history[p]]
        /\ UNCHANGED <<now, agentVars, auctionVars, reputations, evalTimers, proposeCalls, voteCalls,
                       published>>

\* the clock advances; a due timer callback runs before the next minute starts
Tick ==
    /\ now < MaxTime
    /\ \A timer \in evalTimers : timer.at > now
    /\ now' = now + 1
    /\ UNCHANGED <<auctionVars, consensusVars, agentVars>>

InitConsensus ==
    /\ now = 0
    /\ IdleConsensus
    /\ IdleAgent
    /\ reputations \in InitialReputations
    /\ taskQueue = EmptyMap
    /\ agentBids = EmptyMap
    /\ agentProfiles = EmptyMap
    /\ activeAssignments = EmptyMap
    /\ bidTimers = <<>>
    /\ onChain = <<>>
    /\ announces = 0
    /\ bidSubmitted = 0
    /\ successLog = [a \in Bidders |-> 0]
    /\ taskLog = [t \in TaskIds |-> [taskAssigned |-> 0,
                                     failedNoBids |-> 0, failedNoSuitable |-> 0,
                                     created |-> 0, cancelled |-> FALSE]]

NextConsensus ==
    \/ \E p \in ProposalIds : ProposeSolution(p)
    \/ \E p \in ProposalIds : ProposeBroadcastDone(p)
    \/ \E p \in ProposalIds : ProposeBroadcastFail(p)
    \/ \E p \in ProposalIds, support \in BOOLEAN : VoteOnProposal(p, support)
    \/ \E p \in ProposalIds : VoteBroadcastDone(p)
    \/ \E p \in ProposalIds : VoteBroadcastFail(p)
    \/ \E timer \in evalTimers : EvaluateProposal(timer)
    \/ \E p \in ProposalIds, msg \in RemoteProposalMessages \cup
            {published[q] : q \in DOMAIN published} : HandleRemoteProposal(p, msg)
    \/ \E p \in ProposalIds, voter \in Accounts, support \in BOOLEAN :
            HandleRemoteVote(p, voter, support)
    \/ CleanupExpiredProposals
    \/ Tick

SpecConsensus == InitConsensus /\ [][NextConsensus]_vars

\* a proposal with this deadline can still pass deadline + grace on the bounded clock
CanStillExpire(deadline) == deadline + SweepGrace < MaxTime

\* the engine with proposals created only while the bounded clock leaves room for
\* their whole lifetime
NextConsensusLive ==
    \/ \E p \in ProposalIds : CanStillExpire(now + VotingPeriod) /\ ProposeSolution(p)
    \/ \E p \in ProposalIds : ProposeBroadcastDone(p)
    \/ \E p \in ProposalIds : ProposeBroadcastFail(p)
    \/ \E p \in ProposalIds, support \in BOOLEAN : VoteOnProposal(p, support)
    \/ \E p \in ProposalIds : VoteBroadcastDone(p)
    \/ \E p \in ProposalIds : VoteBroadcastFail(p)
    \/ \E timer \in evalTimers : EvaluateProposal(timer)
    \/ \E p \in ProposalIds, msg \in RemoteProposalMessages \cup
            {published[q] : q \in DOMAIN published} :
            CanStillExpire(msg.deadline) /\ HandleRemoteProposal(p, msg)
    \/ \E p \in ProposalIds, voter \in Accounts, support \in BOOLEAN :
            HandleRemoteVote(p, voter, support)
    \/ CleanupExpiredProposals
    \/ Tick

\* what the event loop runs by itself: the clock, due setTimeout callbacks and the
\* setInterval sweep
Scheduled ==
    \/ Tick
    \/ \E timer \in evalTimers : EvaluateProposal(timer)
    \/ CleanupExpiredProposals

\* the scheduled steps keep happening as long as one of them is possible
SpecConsensusLive ==
    /\ InitConsensus
    /\ [][NextConsensusLive]_vars
    /\ WF_vars(Scheduled)

(* ------------------- both engines in one coordinator ------------------ *)
\* One process running the TaskDistributor and the ConsensusEngine: task t1 is
\* announced, a1 and a2 bid on it, and the accounts a2 and a3 vote on proposals.
CoordinatorTask == "t1"
CoordinatorVoters == {"a2", "a3"}

\* getReputation(accountId).score, a participant without an entry counting with
\* the score adjustReputation starts it at
getReputation(ledger, accountId) ==
    IF accountId \in DOMAIN ledger THEN ledger[accountId] ELSE StartingScore

\* the bids of bidders that put their current ledger score into bid.reputation
CurrentBids ==
    { [bid EXCEPT !.reputation = getReputation(reputations, bid.agentId)] :
         bid \in { b \in BidInputs : b.taskId = CoordinatorTask } }

\* the CONSENSUS_PROPOSAL messages of the other accounts: voting is still open
CoordinatorProposalMessages ==
    { [proposer |-> RemoteProposer, deadline |-> now + VotingPeriod] }

\* the ledger was loaded without an entry for the local account
InitCoordinator ==
    /\ InitConsensus
    /\ LocalAccount \notin DOMAIN reputations

NextCoordinator ==
    \/ announces = 0 /\ AnnounceTask(CoordinatorTask, TaskInputs[CoordinatorTask])
    \/ \E bid \in CurrentBids : SubmitBid(bid)
    \/ \E clock \in EvalTimes : EvaluateBidsAndAssign(clock)
    \/ \E k \in 1..Len(onChain) : AssignOnChainDone(k)
    \/ \E a \in ProfiledAgents, profile \in ProfileInputs : UpdateAgentProfile(a, profile)
    \/ \E a \in Bidders, success \in BOOLEAN :
            CompletedBelow(a, MaxCompleted) /\ HandleTaskCompletion(CoordinatorTask, a, success)
    \/ CancelTask(CoordinatorTask)
    \/ \E p \in ProposalIds : CanStillExpire(now + VotingPeriod) /\ ProposeSolution(p)
    \/ \E p \in ProposalIds : ProposeBroadcastDone(p)
    \/ \E p \in ProposalIds, support \in BOOLEAN : VoteOnProposal(p, support)
    \/ \E p \in ProposalIds : VoteBroadcastDone(p)
    \/ \E timer \in evalTimers : EvaluateProposal(timer)
    \/ \E p \in ProposalIds, msg \in CoordinatorProposalMessages :
            CanStillExpire(msg.deadline) /\ HandleRemoteProposal(p, msg)
    \/ \E p \in ProposalIds, voter \in CoordinatorVoters, support \in BOOLEAN :
            HandleRemoteVote(p, voter, support)
    \/ CleanupExpiredProposals
    \/ Tick

SpecCoordinator == InitCoordinator /\ [][NextCoordinator]_vars

(* ------------------------------ SwarmAgent ----------------------------- *)
\* the capabilities an agent may be configured with
AgentConfigs == SUBSET Caps

\* the Task payloads of the TASK_ANNOUNCEMENT messages on the tasks topic
AnnouncedTasks == [id : TaskIds, requiredCapabilities : SUBSET Caps]

\* a capability test passed with any one required capability
hasCapabilities_Some(task) ==
    \E cap \in task.requiredCapabilities : cap \in configCapabilities

\* task.requiredCapabilities.every(cap => this.config.capabilities.includes(cap))
hasCapabilities(task) ==
    \A cap \in task.requiredCapabilities : cap \in configCapabilities

\* handleTaskAnnouncement(message) for a TASK_ANNOUNCEMENT carrying task, with the
\* bidOnTask call it makes, up to `await publishMessage`
HandleTaskAnnouncement(task) ==
    /\ Len(taskAnnounced) < MaxAnnouncements
    /\ taskAnnounced' = Append(taskAnnounced, task)
    /\ bidCalls' = IF hasCapabilities(task) THEN Append(bidCalls, task) ELSE bidCalls
    /\ UNCHANGED <<now, auctionVars, consensusVars, configCapabilities, agentBidMessages,
                   agentBidSubmitted>>

\* bidOnTask resumed after publishMessage resolved: the AGENT_BID message is on the
\* topic and bidSubmitted is emitted
PublishBidDone(k) ==
    /\ bidCalls' = Remove(bidCalls, k)
    /\ agentBidMessages' = Append(agentBidMessages, bidCalls[k])
    /\ agentBidSubmitted' = Append(agentBidSubmitted, bidCalls[k])
    /\ UNCHANGED <<now, auctionVars, consensusVars, configCapabilities, taskAnnounced>>

\* publishMessage rejected: bidOnTask ends at the await
PublishBidFail(k) ==
    /\ bidCalls' = Remove(bidCalls, k)
    /\ UNCHANGED <<now, auctionVars, consensusVars, configCapabilities, taskAnnounced,
                   agentBidMessages, agentBidSubmitted>>

\* an agent constructed with some capabilities; the engines of the coordinator
\* are idle
InitAgent ==
    /\ now = 0
    /\ IdleConsensus
    /\ reputations = EmptyMap
    /\ taskQueue = EmptyMap
    /\ agentBids = EmptyMap
    /\ agentProfiles = EmptyMap
    /\ activeAssignments = EmptyMap
    /\ bidTimers = <<>>
    /\ onChain = <<>>
    /\ announces = 0
    /\ bidSubmitted = 0
    /\ successLog = [a \in Bidders |-> 0]
    /\ taskLog = [t \in TaskIds |-> [taskAssigned |-> 0,
                                     failedNoBids |-> 0, failedNoSuitable |-> 0,
                                     created |-> 0, cancelled |-> FALSE]]
    /\ configCapabilities \in AgentConfigs
    /\ taskAnnounced = <<>>
    /\ bidCalls = <<>>
    /\ agentBidMessages = <<>>
    /\ agentBidSubmitted = <<>>

NextAgent ==
    \/ \E task \in AnnouncedTasks : HandleTaskAnnouncement(task)
    \/ \E k \in 1..Len(bidCalls) : PublishBidDone(k)
    \/ \E k \in 1..Len(bidCalls) : PublishBidFail(k)

SpecAgent == InitAgent /\ [][NextAgent]_vars

(* ------------------------- auction engine: claims ---------------------- *)
\* the number of taskAssigned / taskAssignmentFailed events emitted for t
OutcomeEvents(t) ==
    taskLog[t].taskAssigned + taskLog[t].failedNoBids + taskLog[t].failedNoSuitable

\* C1: for every task id at most one event out of {taskAssigned,
\* taskAssignmentFailed} is ever emitted and at most one TaskAssignment is created.
C1_AtMostOneOutcomePerTask ==
    \A t \in TaskIds : OutcomeEvents(t) <= 1 /\ taskLog[t].created <= 1

\* the bidder of `bid` already has a bid in the bid set of the bid's task
AlreadyBid(bid) ==
    /\ bid.taskId \in DOMAIN agentBids
    /\ \E i \in 1..Len(agentBids[bid.taskId]) :
           agentBids[bid.taskId][i].agentId = bid.agentId

\* C9: each bidder id appears at most once in a task's bid set; a bid for a
\* (task, bidder) pair that already has a bid fails with DuplicateBid and leaves
\* the bid set (and the bidSubmitted events) exactly as they were.
C9_OneBidPerBidder ==
    /\ [](\A t \in DOMAIN agentBids : \A i, j \in 1..Len(agentBids[t]) :
            agentBids[t][i].agentId = agentBids[t][j].agentId => i = j)
    /\ [](\A bid \in BidInputs :
            (bid.taskId \in DOMAIN taskQueue /\ AlreadyBid(bid))
               => submitBidResult(bid) = "DuplicateBid")
    /\ [][\A bid \in BidInputs :
            (SubmitBid(bid) /\ AlreadyBid(bid))
               => (agentBids' = agentBids /\ bidSubmitted' = bidSubmitted)]_vars

\* C9 witness: a bidder has a bid in an open task's bid set and bids again
C9_Witness ==
    \E bid \in BidInputs :
        /\ bid.taskId \in DOMAIN taskQueue
        /\ AlreadyBid(bid)
        /\ submitBidResult(bid) = "DuplicateBid"
        /\ bidSubmitted >= 1

\* the bid's declared capabilities omit a capability its (open) task requires
LacksCapability(bid) ==
    /\ bid.taskId \in DOMAIN taskQueue
    /\ \E cap \in taskQueue[bid.taskId].requiredCapabilities : cap \notin bid.capabilities

\* C10: a first bid whose capabilities omit a required capability of an open task
\* is rejected with CapabilityMismatch, emits no bidSubmitted event and never
\* enters the bid set.
C10_CapabilityMismatch ==
    /\ [](\A bid \in BidInputs :
            (LacksCapability(bid) /\ ~AlreadyBid(bid))
               => submitBidResult(bid) = "CapabilityMismatch")
    /\ [](\A t \in DOMAIN agentBids \cap DOMAIN taskQueue : \A i \in 1..Len(agentBids[t]) :
            taskQueue[t].requiredCapabilities \subseteq agentBids[t][i].capabilities)
    /\ [][\A bid \in BidInputs :
            (SubmitBid(bid) /\ LacksCapability(bid))
               => (agentBids' = agentBids /\ bidSubmitted' = bidSubmitted)]_vars

\* C10 witness: an open task requires a capability that a bidder without a bid
\* on it does not declare, while another bidder's bid was accepted for that task
C10_Witness ==
    \E bid \in BidInputs :
        /\ LacksCapability(bid)
        /\ ~AlreadyBid(bid)
        /\ submitBidResult(bid) = "CapabilityMismatch"
        /\ agentBids[bid.taskId] # <<>>

\* a bid-window timer of task t has not fired yet
TimerPending(t) == \E i \in 1..Len(bidTimers) : bidTimers[i] = t

\* C11: once a task's bid window has been evaluated with an outcome (assigned or
\* failed), the task has left the open queue: every submitBid for it fails with
\* UnknownTask.
C11_ClosedAfterEvaluation ==
    \A bid \in BidInputs :
        (OutcomeEvents(bid.taskId) >= 1 /\ ~TimerPending(bid.taskId))
           => submitBidResult(bid) = "UnknownTask"

\* C16: after cancelTask(t), the evaluation run by t's bid-window timer is a no-op:
\* it emits neither taskAssigned nor taskAssignmentFailed for t and changes no
\* agent's active-task count.
C16_EvaluationAfterCancelIsNoOp ==
    [][\A clock \in EvalTimes :
          (/\ EvaluateBidsAndAssign(clock)
           /\ taskLog[Head(bidTimers)].cancelled)
             => (taskLog' = taskLog /\ agentProfiles' = agentProfiles)]_vars

\* the score of the bid that agent a has in the bid sequence bids
ScoreOfAgent(bids, task, clock, a) ==
    LET i == CHOOSE j \in 1..Len(bids) : bids[j].agentId = a
    IN  bidScore(bids[i], task, agentProfiles, clock)

\* the position of the earliest-submitted bid among those with the highest score
TopBid(bids, task, clock) ==
    CHOOSE i \in 1..Len(bids) :
        /\ \A j \in 1..Len(bids) : bidScore(bids[i], task, agentProfiles, clock)
                                      >= bidScore(bids[j], task, agentProfiles, clock)
        /\ \A j \in 1..(i - 1) : bidScore(bids[j], task, agentProfiles, clock)
                                    < bidScore(bids[i], task, agentProfiles, clock)

\* the evaluation of the task at the head of the timers creates an assignment
Assigns(clock) ==
    /\ EvaluateBidsAndAssign(clock)
    /\ taskLog'[Head(bidTimers)].created = taskLog[Head(bidTimers)].created + 1

\* the first assignee is the top bid's bidder
TopBidFirst(clock) ==
    LET t == Head(bidTimers)
    IN  activeAssignments'[t].assignedAgents[1]
            = agentBids[t][TopBid(agentBids[t], taskQueue[t], clock)].agentId

\* the assignees are listed by non-increasing score
NonIncreasing(clock) ==
    LET t == Head(bidTimers)
        assigned == activeAssignments'[t].assignedAgents
    IN  \A i \in 1..(Len(assigned) - 1) :
            ScoreOfAgent(agentBids[t], taskQueue[t], clock, assigned[i])
               >= ScoreOfAgent(agentBids[t], taskQueue[t], clock, assigned[i + 1])

\* C17: whenever a task is assigned, the top-scored bid (earliest among equals) is
\* the first assignee, the assignees are in non-increasing score order, and with
\* maxAgents = 1 the assignment is exactly that bidder.
C17_TopBidFirst ==
    [][\A clock \in EvalTimes :
          Assigns(clock)
             => (/\ TopBidFirst(clock)
                 /\ NonIncreasing(clock)
                 /\ taskQueue[Head(bidTimers)].maxAgents = 1
                       => Len(activeAssignments'[Head(bidTimers)].assignedAgents) = 1)]_vars

\* the first two parts of C17: top bid first, assignees by non-increasing score
C17_Order ==
    [][\A clock \in EvalTimes :
          Assigns(clock) => (TopBidFirst(clock) /\ NonIncreasing(clock))]_vars

\* C18: when taskAssigned is emitted for a task, the task has left the open queue,
\* its bids are discarded, a TaskAssignment listing the selected bidders exists,
\* and every assignee's active-task count is one higher than before, also for an
\* assignee without a registered profile.
C18_AssignedEffects ==
    [][\A k \in 1..Len(onChain) :
          AssignOnChainDone(k)
             => LET t == onChain[k].taskId
                    assigned == onChain[k].assignedAgents
                IN  /\ t \notin DOMAIN taskQueue'
                    /\ t \notin DOMAIN agentBids'
                    /\ t \in DOMAIN activeAssignments'
                    /\ activeAssignments'[t].assignedAgents = assigned
                    /\ \A i \in 1..Len(assigned) :
                          getAgentWorkload(agentProfiles', assigned[i])
                             = getAgentWorkload(agentProfiles, assigned[i]) + 1]_vars

\* C19: when a bid window expires on an open task with an empty bid set, the
\* evaluation emits taskAssignmentFailed with the no-bids reason (and nothing
\* else), creates no TaskAssignment and changes no active-task count.
C19_NoBidsFails ==
    [][\A clock \in EvalTimes :
          LET t == Head(bidTimers) IN
          (/\ EvaluateBidsAndAssign(clock)
           /\ t \in DOMAIN taskQueue
           /\ t \in DOMAIN agentBids
           /\ agentBids[t] = <<>>)
             => (/\ taskLog' = [taskLog EXCEPT ![t].failedNoBids = @ + 1]
                 /\ activeAssignments' = activeAssignments
                 /\ agentProfiles' = agentProfiles
                 /\ onChain' = onChain)]_vars

\* C19 witness: a task announced once, never cancelled, still open with an empty
\* bid set after its bid window was evaluated with the no-bids failure
C19_Witness ==
    \E t \in DOMAIN taskQueue :
        /\ announces = 1
        /\ ~taskLog[t].cancelled
        /\ ~TimerPending(t)
        /\ t \in DOMAIN agentBids /\ agentBids[t] = <<>>
        /\ taskLog[t].failedNoBids = 1
        /\ taskLog[t].created = 0

\* C20: completeTask lowers the agent's active-task count by one but not below 0,
\* raises the completed-task count by one and sets successRate to
\* (oldRate * (n - 1) + (1 if success else 0)) / n, n being the new completed
\* count; so successRate * completedTaskCount is the number of successful
\* completions and successRate stays within [0,1].
C20_CompletionBookkeeping ==
    /\ [][\A t \in DOMAIN activeAssignments, a \in DOMAIN agentProfiles, success \in BOOLEAN :
            HandleTaskCompletion(t, a, success)
               => LET old == agentProfiles[a]
                      new == agentProfiles'[a]
                      n == old.completedTaskCount + 1
                  IN  /\ new.activeTaskCount =
                            IF old.activeTaskCount >= 1 THEN old.activeTaskCount - 1 ELSE 0
                      /\ new.completedTaskCount = n
                      /\ new.rateNum * (old.rateDen * n) =
                            (old.rateNum * (n - 1) + (IF success THEN old.rateDen ELSE 0))
                               * new.rateDen]_vars
    /\ [](\A a \in DOMAIN agentProfiles :
            /\ agentProfiles[a].rateNum * agentProfiles[a].completedTaskCount
                  = successLog[a] * agentProfiles[a].rateDen
            /\ agentProfiles[a].completedTaskCount >= 1
                  => (0 <= agentProfiles[a].rateNum
                      /\ agentProfiles[a].rateNum <= agentProfiles[a].rateDen)
            /\ agentProfiles[a].activeTaskCount >= 0)

\* C20 witness: an agent with three completions, two of them successful, whose
\* active-task count was held at 0 and whose success rate is 2/3
C20_Witness ==
    \E a \in DOMAIN agentProfiles :
        /\ agentProfiles[a].completedTaskCount = 3
        /\ successLog[a] = 2
        /\ agentProfiles[a].activeTaskCount = 0
        /\ 3 * agentProfiles[a].rateNum = 2 * agentProfiles[a].rateDen

\* the agents listed in the assignment of task t, if there is one
AssigneesOf(t) ==
    IF t \in DOMAIN activeAssignments
      THEN { activeAssignments[t].assignedAgents[i] :
               i \in 1..Len(activeAssignments[t].assignedAgents) }
      ELSE {}

\* the queue entry, the bids and the assignment of every task other than t stay
\* as they are
OtherTasksUnchanged(t) ==
    \A u \in TaskIds \ {t} :
        /\ u \in DOMAIN taskQueue' <=> u \in DOMAIN taskQueue
        /\ u \in DOMAIN taskQueue => taskQueue'[u] = taskQueue[u]
        /\ u \in DOMAIN agentBids' <=> u \in DOMAIN agentBids
        /\ u \in DOMAIN agentBids => agentBids'[u] = agentBids[u]
        /\ u \in DOMAIN activeAssignments' <=> u \in DOMAIN activeAssignments
        /\ u \in DOMAIN activeAssignments => activeAssignments'[u] = activeAssignments[u]

\* task t is gone from the queue, the bids and the assignments
TaskRemoved(t) ==
    /\ t \notin DOMAIN taskQueue'
    /\ t \notin DOMAIN agentBids'
    /\ t \notin DOMAIN activeAssignments'

\* C21: cancelTask(t) removes t from the open queue and drops its bids; an existing
\* assignment of t is removed and the active-task count of exactly its assignees
\* drops by one each; the counts of all other agents and the queue entries, bids
\* and assignments of all other tasks are unchanged.
C21_CancelEffects ==
    [][\A t \in TaskIds :
          CancelTask(t)
             => (/\ TaskRemoved(t)
                 /\ OtherTasksUnchanged(t)
                 /\ \A a \in Bidders :
                       getAgentWorkload(agentProfiles', a) =
                          getAgentWorkload(agentProfiles, a)
                             - (IF a \in AssigneesOf(t) THEN 1 ELSE 0))]_vars

\* C21 for the agents the distributor holds a profile of: the removals, the frame,
\* and a count one lower for the assignees with a profile, unchanged for the rest
C21_CancelEffectsProfiled ==
    [][\A t \in TaskIds :
          CancelTask(t)
             => (/\ TaskRemoved(t)
                 /\ OtherTasksUnchanged(t)
                 /\ DOMAIN agentProfiles' = DOMAIN agentProfiles
                 /\ \A a \in DOMAIN agentProfiles :
                       agentProfiles'[a] =
                          [agentProfiles[a] EXCEPT !.activeTaskCount =
                              @ - (IF a \in AssigneesOf(t) THEN 1 ELSE 0)])]_vars

\* the agent lacks a capability the task requires
AgentLacks(task) == \E cap \in task.requiredCapabilities : cap \notin configCapabilities

\* the elements of a sequence
Range(s) == { s[i] : i \in 1..Len(s) }

\* C26: the agent publishes an AGENT_BID message and emits bidSubmitted only for
\* tasks all of whose required capabilities are among its configured
\* capabilities; an announcement of a task with a capability the agent lacks
\* starts no bid, publishes nothing and emits no bidSubmitted.
C26_BidsOnlyWithCapabilities ==
    /\ [](\A task \in Range(agentBidMessages) \cup Range(agentBidSubmitted) \cup Range(bidCalls) :
            task.requiredCapabilities \subseteq configCapabilities)
    /\ [][\A task \in AnnouncedTasks :
            (HandleTaskAnnouncement(task) /\ AgentLacks(task))
               => (/\ bidCalls' = bidCalls
                   /\ agentBidMessages' = agentBidMessages
                   /\ agentBidSubmitted' = agentBidSubmitted)]_vars

\* C26 witness: the agent has one of two capabilities; a task requiring both was
\* announced and got no bid, a task requiring the agent's capability got one
C26_Witness ==
    /\ Cardinality(configCapabilities) = 1
    /\ \E i \in 1..Len(taskAnnounced) :
          /\ taskAnnounced[i].requiredCapabilities = Caps
          /\ taskAnnounced[i] \notin Range(agentBidMessages)
    /\ \E i \in 1..Len(taskAnnounced) :
          /\ taskAnnounced[i].requiredCapabilities = configCapabilities
          /\ taskAnnounced[i] \in Range(agentBidSubmitted)
    /\ bidCalls = <<>>

\* the greedy rule, walking the scored bids from position i on: a bid is taken iff
\* fewer than hi bids are taken and (fewer than lo are taken, or it declares a
\* capability no taken bid declares, or its score is above 0.8)
RECURSIVE GreedyRule(_, _, _, _, _)
GreedyRule(scoredBids, i, taken, lo, hi) ==
    IF i > Len(scoredBids) THEN taken
    ELSE LET bid == scoredBids[i]
             addsCapability == \E cap \in bid.capabilities :
                                  \A j \in 1..Len(taken) : cap \notin taken[j].capabilities
             take == /\ Len(taken) < hi
                     /\ \/ Len(taken) < lo
                        \/ addsCapability
                        \/ 10 * bid.score > 8 * ScoreScale
         IN  GreedyRule(scoredBids, i + 1, IF take THEN Append(taken, bid) ELSE taken, lo, hi)

\* the bidders the greedy rule takes for the task at the head of the timers
RuleAssignees(clock) ==
    LET t == Head(bidTimers)
        task == taskQueue[t]
        taken == GreedyRule(scoreBids(agentBids[t], task, agentProfiles, clock), 1, <<>>,
                            IF task.minAgents = 0 THEN 1 ELSE task.minAgents,
                            IF task.maxAgents = 0 THEN 5 ELSE task.maxAgents)
    IN  [i \in 1..Len(taken) |-> taken[i].agentId]

\* the evaluation of the task at the head of the timers selects as the rule says
FollowsGreedyRule(clock) ==
    LET t == Head(bidTimers)
    IN  IF RuleAssignees(clock) = <<>>
          THEN /\ activeAssignments' = activeAssignments
               /\ taskLog' = [taskLog EXCEPT ![t].failedNoSuitable = @ + 1]
          ELSE /\ t \in DOMAIN activeAssignments'
               /\ activeAssignments'[t].assignedAgents = RuleAssignees(clock)

\* C27: the assignees of an evaluated task are exactly the bids the greedy rule
\* takes, in the order of the walk; bids visited after maxAgents is reached are
\* never selected.
C27_GreedyRule ==
    [][\A clock \in EvalTimes :
          (EvaluateBidsAndAssign(clock) /\ ~NoValidBids(Head(bidTimers)))
             => FollowsGreedyRule(clock)]_vars

\* C27 for the tasks whose minimum does not exceed their maximum
C27_GreedyRuleMinWithinMax ==
    [][\A clock \in EvalTimes :
          (/\ EvaluateBidsAndAssign(clock)
           /\ ~NoValidBids(Head(bidTimers))
           /\ LET task == taskQueue[Head(bidTimers)]
              IN  (IF task.minAgents = 0 THEN 1 ELSE task.minAgents)
                     <= (IF task.maxAgents = 0 THEN 5 ELSE task.maxAgents))
             => FollowsGreedyRule(clock)]_vars

\* C28: for every task and bid set, also when minAgents exceeds maxAgents, an
\* assignment never lists more agents than the task's maximum (default 5), and it
\* lists at least the task's minimum (default 1) whenever that many bids were
\* received.
C28_AssigneesWithinBounds ==
    [][\A clock \in EvalTimes :
          Assigns(clock)
             => LET t == Head(bidTimers)
                    task == taskQueue[t]
                    assigned == activeAssignments'[t].assignedAgents
                    lo == IF task.minAgents = 0 THEN 1 ELSE task.minAgents
                    hi == IF task.maxAgents = 0 THEN 5 ELSE task.maxAgents
                IN  /\ Len(assigned) <= hi
                    /\ Len(agentBids[t]) >= lo => Len(assigned) >= lo]_vars

\* an evaluation of task t is suspended between storing the assignment and
\* emitting taskAssigned
EvaluationInProgress(t) == \E k \in 1..Len(onChain) : onChain[k].taskId = t

\* C29: while an evaluation of a task is between reading the bid set and emitting
\* taskAssigned, no submitBid, cancelTask or completeTask for that task takes
\* effect; so no bid is accepted that the evaluation did not score, and
\* taskAssigned is never emitted for a task cancelled in the meantime.
C29_EvaluationAtomic ==
    /\ [][\A bid \in BidInputs :
            (EvaluationInProgress(bid.taskId) /\ SubmitBid(bid))
               => (agentBids' = agentBids /\ bidSubmitted' = bidSubmitted)]_vars
    /\ [][\A t \in TaskIds :
            (EvaluationInProgress(t) /\ CancelTask(t))
               => (/\ taskQueue' = taskQueue
                   /\ agentBids' = agentBids
                   /\ activeAssignments' = activeAssignments
                   /\ agentProfiles' = agentProfiles)]_vars
    /\ [][\A t \in TaskIds, a \in Bidders, success \in BOOLEAN :
            (EvaluationInProgress(t) /\ HandleTaskCompletion(t, a, success))
               => agentProfiles' = agentProfiles]_vars
    /\ [][\A k \in 1..Len(onChain) :
            AssignOnChainDone(k) => ~taskLog[onChain[k].taskId].cancelled]_vars

\* nothing is scheduled for task t any more: no bid-window timer and no
\* evaluation waiting for assignTaskOnChain
NothingPending(t) == ~TimerPending(t) /\ ~EvaluationInProgress(t)

\* C33: every announced task that is not cancelled ends in a reported outcome:
\* once its bid window has expired and its evaluation is over, also by a failed
\* hand-over to the execution layer, a taskAssigned or taskAssignmentFailed event
\* was emitted for it and it has left the open queue.
C33_EveryTaskGetsOutcome ==
    \A t \in DOMAIN taskQueue : taskLog[t].cancelled \/ ~NothingPending(t)

\* C34: the bid set of a task never holds more than maxBidsPerTask (20) bids.
C34_BidSetCapped ==
    \A t \in DOMAIN agentBids : Len(agentBids[t]) <= 20

\* C35: in every reachable state no task id is both in the open task queue and in
\* the active-assignment map.
C35_QueuedOrAssigned ==
    DOMAIN taskQueue \cap DOMAIN activeAssignments = {}

\* C36: no agent's active-task count is ever negative, whatever the sequence of
\* assignments, completeTask and cancelTask calls.
C36_ActiveCountNonNegative ==
    \A a \in DOMAIN agentProfiles : agentProfiles[a].activeTaskCount >= 0

\* the agents of a sequence are pairwise distinct
Distinct(agents) == \A i, j \in 1..Len(agents) : agents[i] = agents[j] => i = j

\* C37: every TaskAssignment lists pairwise distinct agents, and each of them has
\* an accepted bid for the task, declaring all capabilities the task requires,
\* in the bid set the assignment is made from; a stored assignment is not
\* altered by any other operation.
C37_AssigneesAreDistinctBidders ==
    /\ [](\A t \in DOMAIN activeAssignments : Distinct(activeAssignments[t].assignedAgents))
    /\ [][\A clock \in EvalTimes :
            Assigns(clock)
               => LET t == Head(bidTimers)
                      assigned == activeAssignments'[t].assignedAgents
                  IN  \A i \in 1..Len(assigned) :
                         \E j \in 1..Len(agentBids[t]) :
                            /\ agentBids[t][j].agentId = assigned[i]
                            /\ taskQueue[t].requiredCapabilities
                                  \subseteq agentBids[t][j].capabilities]_vars
    /\ [][\A t \in DOMAIN activeAssignments \cap DOMAIN activeAssignments' :
            activeAssignments'[t] # activeAssignments[t]
               => \E clock \in EvalTimes : Assigns(clock) /\ Head(bidTimers) = t]_vars

\* C37 witness: t1 is assigned to both bidders, and t2, whose required capabilities
\* only a2 declares, to a2 alone
C37_Witness ==
    /\ "t1" \in DOMAIN activeAssignments
    /\ Len(activeAssignments["t1"].assignedAgents) = 2
    /\ "t2" \in DOMAIN activeAssignments
    /\ activeAssignments["t2"].assignedAgents = <<"a2">>
    /\ ~(TaskInputs["t2"].requiredCapabilities \subseteq DeclaredCapabilities["a1"])

\* the task at the head of the timers is open and has at least one bid
HeadHasBids ==
    /\ bidTimers # <<>>
    /\ Head(bidTimers) \in DOMAIN taskQueue
    /\ Head(bidTimers) \in DOMAIN agentBids
    /\ agentBids[Head(bidTimers)] # <<>>

\* C38: an evaluation of an open task with a non-empty bid set always selects:
\* it stores an assignment with at least one assignee, the first being the bidder
\* of the top-scored bid; the outcome "no suitable agents" is never produced, and
\* an evaluation of an open task reports failure only when the task has no bids.
C38_NonEmptyBidSetIsAssigned ==
    /\ [](\A t \in TaskIds : taskLog[t].failedNoSuitable = 0)
    /\ [][\A clock \in EvalTimes :
            (EvaluateBidsAndAssign(clock) /\ HeadHasBids)
               => /\ Assigns(clock)
                  /\ activeAssignments'[Head(bidTimers)].assignedAgents # <<>>
                  /\ TopBidFirst(clock)]_vars
    /\ [][\A t \in DOMAIN taskQueue :
            taskLog'[t].failedNoBids > taskLog[t].failedNoBids
               => t \notin DOMAIN agentBids \/ agentBids[t] = <<>>]_vars

\* C38 witness: a task asking for at least two agents got a single bid and is
\* assigned to that bidder
C38_Witness ==
    /\ "t1" \in DOMAIN taskQueue
    /\ taskQueue["t1"].minAgents = 2
    /\ Len(agentBids["t1"]) = 1
    /\ "t1" \in DOMAIN activeAssignments
    /\ Len(activeAssignments["t1"].assignedAgents) = 1

\* C39: a completion reported for an agent that is not an assignee of the named
\* task leaves every profile (active-task count, completed-task count, success
\* rate) unchanged.
C39_CompletionOnlyForAssignees ==
    [][\A t \in TaskIds, a \in Bidders, success \in BOOLEAN :
          (HandleTaskCompletion(t, a, success) /\ a \notin AssigneesOf(t))
             => agentProfiles' = agentProfiles]_vars

\* C40: for every bid scored at evaluation time the time component lies between
\* 0 and 1 (0 and ScoreScale here), also when the task's deadline has passed or
\* equals the evaluation time.
C40_TimeScoreInUnitRange ==
    [][\A clock \in EvalTimes :
          (EvaluateBidsAndAssign(clock) /\ HeadHasBids)
             => LET t == Head(bidTimers)
                IN  \A i \in 1..Len(agentBids[t]) :
                       timeScore(agentBids[t][i].estimatedTime,
                                 taskQueue[t].deadline - clock) \in 0..ScoreScale]_vars

(* ------------------------- voting engine: claims ----------------------- *)
\* the weights recorded in a vote map, added up voter by voter
RECURSIVE WeightOf(_, _)
WeightOf(votes, voters) ==
    IF voters = {} THEN 0
    ELSE LET v == CHOOSE x \in voters : TRUE
         IN  votes[v] + WeightOf(votes, voters \ {v})

SupportWeight(p) == WeightOf(proposals[p].supporters, DOMAIN proposals[p].supporters)
RejectWeight(p) == WeightOf(proposals[p].rejectors, DOMAIN proposals[p].rejectors)
VoteCount(p) ==
    Cardinality(DOMAIN proposals[p].supporters) + Cardinality(DOMAIN proposals[p].rejectors)

\* C2: once a proposal id has left 'pending', it is never pending again and never
\* has a different terminal status.
C2_StatusOneWay ==
    \A p \in DOMAIN proposals :
        history[p].first # "none" => proposals[p].status = history[p].first

\* C3: every reputation score stays in [0, 200].
C3_ReputationBounded ==
    \A a \in DOMAIN reputations : 0 <= reputations[a] /\ reputations[a] <= MaxScore

\* C3 witness: a finalized proposal whose losing voter sits at the floor 0 and
\* another whose winning voter sits at the ceiling 200
C3_Witness ==
    \E p \in DOMAIN proposals :
        /\ proposals[p].status = "rejected"
        /\ history[p].consensusReached >= 1
        /\ \E v \in DOMAIN proposals[p].supporters :
               v \in DOMAIN reputations /\ reputations[v] = 0
        /\ \E v \in DOMAIN proposals[p].rejectors :
               v \in DOMAIN reputations /\ reputations[v] = MaxScore

\* the acceptance rule: enough votes and a weighted support ratio of at least
\* votingThreshold
MeetsAcceptanceRule(p) ==
    /\ VoteCount(p) >= MinParticipants
    /\ SupportWeight(p) + RejectWeight(p) > 0
    /\ 100 * SupportWeight(p) >= VotingThresholdPct * (SupportWeight(p) + RejectWeight(p))

\* C4: a finalized proposal is 'accepted' iff totalVotes >= minParticipants and
\* supportWeight / (supportWeight + rejectWeight) >= votingThreshold over the
\* recorded votes, and 'rejected' otherwise; its deadline evaluation rejects a
\* proposal with fewer than minParticipants votes.
C4_TallyRule ==
    /\ [](\A p \in DOMAIN proposals :
            /\ proposals[p].status = "accepted" => MeetsAcceptanceRule(p)
            /\ proposals[p].status = "rejected" => ~MeetsAcceptanceRule(p))
    /\ [][\A timer \in evalTimers :
            LET p == timer.proposalId IN
            (/\ EvaluateProposal(timer)
             /\ p \in DOMAIN proposals
             /\ proposals[p].status = "pending")
               => proposals'[p].status =
                     IF MeetsAcceptanceRule(p) THEN "accepted" ELSE "rejected"]_vars

\* C4 witness: a proposal accepted with a quorum, and one the deadline evaluation
\* rejected for having fewer than minParticipants votes despite full support
C4_Witness ==
    \E p \in DOMAIN proposals :
        /\ proposals[p].status = "rejected"
        /\ ~history[p].early
        /\ VoteCount(p) < MinParticipants
        /\ VoteCount(p) >= 2
        /\ RejectWeight(p) = 0
        /\ SupportWeight(p) > 0

\* the tally at the deadline if every voter who has not voted yet rejects with
\* the largest ledger weight
WorstCaseStillAccepted(p) ==
    LET undecided == TotalPossibleVoters - VoteCount(p)
    IN  100 * SupportWeight(p) >=
            VotingThresholdPct * (SupportWeight(p) + RejectWeight(p) + undecided * MaxScore)

\* C5: a proposal finalized before its deadline has the result the tally at the
\* deadline would give, however the remaining voters (weights in [0,200]) vote.
C5_EarlyTerminationDecided ==
    \A p \in DOMAIN proposals :
        (history[p].early /\ proposals[p].status = "accepted") => WorstCaseStillAccepted(p)

\* the bound of the early-termination check, on the recorded votes
MeetsEarlyBound(p) ==
    LET remaining == TotalPossibleVoters - VoteCount(p)
    IN  100 * SupportWeight(p) >=
            VotingThresholdPct * (SupportWeight(p) + RejectWeight(p)
                                  + remaining * MaxRejectWeightPerVoter)

\* C6: after every recorded vote the early-termination check runs, so no proposal
\* remains pending with a vote set that meets the bound (a vote whose broadcast
\* is still in flight has its check still to come).
C6_NoPendingAtBound ==
    \A p \in DOMAIN proposals :
        (proposals[p].status = "pending" /\ MeetsEarlyBound(p)) => p \in voteCalls

\* C7: no voter is in both vote maps of a proposal, and a second vote by the same
\* voter (local or remote, either side) is rejected and leaves both maps unchanged.
C7_OneVotePerVoter ==
    /\ [](\A p \in DOMAIN proposals :
            DOMAIN proposals[p].supporters \cap DOMAIN proposals[p].rejectors = {})
    /\ [](\A p \in DOMAIN proposals :
            (LocalAccount \in DOMAIN proposals[p].supporters \cup DOMAIN proposals[p].rejectors)
               => voteResult(p, LocalAccount) # "ok")
    /\ [][\A p \in DOMAIN proposals :
            \/ /\ p \in DOMAIN proposals'
               /\ proposals'[p].supporters = proposals[p].supporters
               /\ proposals'[p].rejectors = proposals[p].rejectors
            \/ \A voter \in DOMAIN proposals[p].supporters \cup DOMAIN proposals[p].rejectors,
                  support \in BOOLEAN :
                    /\ ~HandleRemoteVote(p, voter, support)
                    /\ ~(voter = LocalAccount /\ VoteOnProposal(p, support))]_vars

\* C7 witness: a pending proposal with a remote supporter, a remote rejector and
\* the local account's vote recorded, so that every further vote is a second vote
C7_Witness ==
    \E p \in DOMAIN proposals :
        /\ proposals[p].status = "pending"
        /\ LocalAccount \in DOMAIN proposals[p].rejectors
        /\ voteResult(p, LocalAccount) = "DuplicateVote"
        /\ Cardinality(DOMAIN proposals[p].supporters) >= 2
        /\ Cardinality(DOMAIN proposals[p].rejectors) >= 2

\* C8: no vote is recorded after the proposal's deadline has passed.
C8_NoVoteAfterDeadline ==
    \A p \in ProposalIds : history[p].lateVotes = 0

\* a score moved by delta and kept within [0, 200]
Clamped(score, delta) ==
    IF score + delta < 0 THEN 0 ELSE IF score + delta > 200 THEN 200 ELSE score + delta

\* the ledger score of a participant, a missing entry counting as 100
ScoreOf(ledger, a) == IF a \in DOMAIN ledger THEN ledger[a] ELSE 100

\* the score participant a must have after a finalization with the given vote maps
ScoreAfterFinalization(ledger, proposal, a) ==
    LET accepted == proposal.status = "accepted"
        winners == IF accepted THEN DOMAIN proposal.supporters ELSE DOMAIN proposal.rejectors
        voted == Clamped(ScoreOf(ledger, a), IF a \in winners THEN 5 ELSE -2)
    IN  IF accepted /\ a = proposal.proposer THEN Clamped(voted, 10) ELSE voted

\* C12: a finalization gives every winning voter +5, every losing voter -2 and the
\* proposer another +10 only if accepted, each result clamped to [0,200] (no
\* ledger entry counts as 100); the entries of all non-voters are unchanged.
C12_FinalizationDeltas ==
    [][\A p \in DOMAIN proposals :
          (/\ proposals[p].status = "pending"
           /\ p \in DOMAIN proposals'
           /\ proposals'[p].status \in {"accepted", "rejected"})
             => \A a \in Accounts :
                   IF a \in DOMAIN proposals'[p].supporters \cup DOMAIN proposals'[p].rejectors
                     THEN /\ a \in DOMAIN reputations'
                          /\ reputations'[a] = ScoreAfterFinalization(reputations, proposals'[p], a)
                     ELSE /\ a \in DOMAIN reputations' <=> a \in DOMAIN reputations
                          /\ a \in DOMAIN reputations => reputations'[a] = reputations[a]]_vars

\* C12 witness: an accepted proposal with a rejector, whose proposer had no ledger
\* entry (vote weight 50) and now stands at 100 + 5 + 10, next to a supporter
\* clamped at 200 and a rejector clamped at 0
C12_Witness ==
    \E p \in DOMAIN proposals :
        /\ proposals[p].status = "accepted"
        /\ history[p].consensusReached = 1
        /\ proposals[p].proposer = LocalAccount
        /\ proposals[p].supporters[LocalAccount] = DefaultWeight
        /\ LocalAccount \in DOMAIN reputations /\ reputations[LocalAccount] = 115
        /\ \E v \in DOMAIN proposals[p].supporters : reputations[v] = MaxScore
        /\ \E v \in DOMAIN proposals[p].rejectors : reputations[v] = 0

\* C13: the finalization effects of a proposal happen at most once: at most one
\* consensusReached event is emitted for a proposal id.
C13_FinalizedAtMostOnce ==
    \A p \in ProposalIds : history[p].consensusReached <= 1

\* C14: the sweep that moves a pending proposal to 'expired' leaves the ledger
\* unchanged and emits no consensusReached event, and while the proposal is
\* expired nothing changes the ledger or emits consensusReached for it.
C14_ExpiryLeavesLedger ==
    /\ [][\A p \in DOMAIN proposals :
            (/\ proposals[p].status = "pending"
             /\ now > proposals[p].deadline + SweepGrace
             /\ CleanupExpiredProposals)
               => (/\ reputations' = reputations
                   /\ history'[p].consensusReached = history[p].consensusReached)]_vars
    /\ [][\A p \in DOMAIN proposals :
            proposals[p].status = "expired"
               => (/\ reputations' = reputations
                   /\ history'[p].consensusReached = history[p].consensusReached)]_vars

\* C14 witness: a proposal with votes on both sides that the sweep expired: no
\* consensusReached event, and its voters' scores are the initial ones
C14_Witness ==
    \E p \in DOMAIN proposals :
        /\ proposals[p].status = "expired"
        /\ history[p].consensusReached = 0
        /\ DOMAIN proposals[p].rejectors # {}
        /\ Cardinality(DOMAIN proposals[p].supporters) >= 2
        /\ reputations \in InitialReputations

\* C15: every proposal, created locally or received (also after its deadline),
\* eventually leaves 'pending'.
C15_EventuallyLeavesPending ==
    \A p \in ProposalIds :
        (p \in DOMAIN proposals /\ proposals[p].status = "pending")
           ~> (p \notin DOMAIN proposals \/ proposals[p].status # "pending")

\* C15 witness: a proposal that arrived after its deadline, got no deadline timer,
\* collected votes and was expired by the sweep
C15_Witness ==
    \E p \in DOMAIN proposals :
        /\ proposals[p].status = "expired"
        /\ proposals[p].proposer = RemoteProposer
        /\ proposals[p].deadline < 0
        /\ evalTimers = {}
        /\ VoteCount(p) >= 2

\* C22: a proposal message or a vote message delivered again (the id was created
\* before; the voter's vote is already recorded) leaves the proposals with their
\* vote maps and statuses and the ledger exactly as they were.
C22_DuplicateDeliveryHarmless ==
    /\ [][\A p \in ProposalIds :
            (/\ history[p].created >= 1
             /\ p \in DOMAIN published
             /\ HandleRemoteProposal(p, published[p]))
               => (proposals' = proposals /\ reputations' = reputations)]_vars
    /\ [][\A p \in DOMAIN proposals :
            \A voter \in DOMAIN proposals[p].supporters \cup DOMAIN proposals[p].rejectors,
               support \in BOOLEAN :
                 HandleRemoteVote(p, voter, support)
                    => (proposals' = proposals /\ reputations' = reputations)]_vars

\* C23: the reputation term with which the evaluation scores a bid is the one of
\* the bidder's current score in the ledger of the voting engine (no entry
\* counting as 100), also after a finalization has changed that score.
C23_ScoredWithLedgerReputation ==
    [][\A clock \in EvalTimes :
          (EvaluateBidsAndAssign(clock) /\ ~NoValidBids(Head(bidTimers)))
             => \A i \in 1..Len(agentBids[Head(bidTimers)]) :
                   LET bid == agentBids[Head(bidTimers)][i]
                   IN  reputationScore(bid.reputation)
                          = reputationScore(ScoreOf(reputations, bid.agentId))]_vars

\* a step in which some pending proposal is finalized (consensusReached emitted)
FinalizationStep ==
    \E p \in ProposalIds : history'[p].consensusReached = history[p].consensusReached + 1

\* C24: reputation scores are written only by proposal finalization: every step
\* that changes the ledger finalizes a proposal, and propose, a local vote call
\* (accepted or refused), remote proposal delivery, the sweep and every auction
\* operation leave every score unchanged; so does a remote vote delivery that
\* does not finalize.
C24_LedgerWrittenOnlyByFinalization ==
    /\ [][reputations' # reputations => FinalizationStep]_vars
    /\ [][(\/ \E p \in ProposalIds : ProposeSolution(p)
           \/ \E p \in ProposalIds, support \in BOOLEAN : VoteOnProposal(p, support)
           \/ \E p \in ProposalIds, msg \in CoordinatorProposalMessages :
                 HandleRemoteProposal(p, msg)
           \/ CleanupExpiredProposals
           \/ AnnounceTask(CoordinatorTask, TaskInputs[CoordinatorTask])
           \/ \E bid \in CurrentBids : SubmitBid(bid)
           \/ \E clock \in EvalTimes : EvaluateBidsAndAssign(clock)
           \/ \E k \in 1..Len(onChain) : AssignOnChainDone(k)
           \/ \E a \in Bidders, success \in BOOLEAN :
                 HandleTaskCompletion(CoordinatorTask, a, success)
           \/ CancelTask(CoordinatorTask))
             => reputations' = reputations]_vars

\* C24 witness: the task was assigned, completed by a profiled agent and cancelled,
\* a proposal holds three votes and is still pending, and the ledger is the one
\* that was loaded
C24_Witness ==
    \E p \in DOMAIN proposals :
        /\ proposals[p].status = "pending"
        /\ VoteCount(p) >= 3
        /\ history[p].consensusReached = 0
        /\ reputations \in InitialReputations
        /\ taskLog[CoordinatorTask].taskAssigned = 1
        /\ taskLog[CoordinatorTask].cancelled
        /\ \E a \in DOMAIN agentProfiles : agentProfiles[a].completedTaskCount = 1

\* the error a vote call of the local account on p must fail with, "none" if the
\* vote is to be accepted
ExpectedVoteError(p) ==
    IF p \notin DOMAIN proposals THEN "UnknownProposal"
    ELSE IF proposals[p].status # "pending" THEN "ProposalNotPending"
    ELSE IF now > proposals[p].deadline THEN "VotingExpired"
    ELSE IF LocalAccount \in DOMAIN proposals[p].supporters \cup DOMAIN proposals[p].rejectors
      THEN "DuplicateVote"
    ELSE "none"

\* C25: a vote call that fails with UnknownProposal, ProposalNotPending,
\* VotingExpired or DuplicateVote changes nothing: all proposals (vote maps, status,
\* deadline) and the ledger are as before, and the call does not go on to the
\* broadcast after which voteReceived is emitted.
C25_FailedVoteChangesNothing ==
    /\ [](\A p \in ProposalIds :
            ExpectedVoteError(p) # "none" => voteResult(p, LocalAccount) = ExpectedVoteError(p))
    /\ [][\A p \in ProposalIds, support \in BOOLEAN :
            (VoteOnProposal(p, support) /\ ExpectedVoteError(p) # "none")
               => (/\ proposals' = proposals
                   /\ reputations' = reputations
                   /\ voteCalls' = voteCalls
                   /\ history' = history)]_vars

\* C25 witness: a pending proposal past its deadline that holds remote votes on
\* both sides and no vote of the local account, whose vote call fails with
\* VotingExpired
C25_Witness ==
    \E p \in DOMAIN proposals :
        /\ ExpectedVoteError(p) = "VotingExpired"
        /\ voteResult(p, LocalAccount) = "VotingExpired"
        /\ LocalAccount \notin DOMAIN proposals[p].supporters \cup DOMAIN proposals[p].rejectors
        /\ Cardinality(DOMAIN proposals[p].supporters) >= 2
        /\ DOMAIN proposals[p].rejectors # {}

\* the early-termination bound on the votes proposal p holds after the step
MeetsEarlyBoundAfter(p) ==
    LET supportWeight == WeightOf(proposals'[p].supporters, DOMAIN proposals'[p].supporters)
        rejectWeight == WeightOf(proposals'[p].rejectors, DOMAIN proposals'[p].rejectors)
        remaining == TotalPossibleVoters
                        - Cardinality(DOMAIN proposals'[p].supporters)
                        - Cardinality(DOMAIN proposals'[p].rejectors)
    IN  100 * supportWeight >=
            VotingThresholdPct * (supportWeight + rejectWeight
                                  + remaining * MaxRejectWeightPerVoter)

\* C30: a failing broadcast does not derail the voting state machine: a pending
\* proposal of the local account whose proposeSolution call is over (broadcast
\* resolved or failed) has its evaluation scheduled, and a vote call ended by a
\* failed broadcast leaves no pending proposal on which the early-termination
\* check would have fired.
C30_BroadcastFailureHarmless ==
    /\ [](\A p \in DOMAIN proposals :
            (/\ proposals[p].proposer = LocalAccount
             /\ proposals[p].status = "pending"
             /\ p \notin proposeCalls)
               => \E timer \in evalTimers : timer.proposalId = p)
    /\ [][\A p \in ProposalIds :
            VoteBroadcastFail(p)
               => ~(/\ p \in DOMAIN proposals'
                    /\ proposals'[p].status = "pending"
                    /\ MeetsEarlyBoundAfter(p))]_vars

\* voter's vote on p is recorded by the step, on the given side
NewlyRecorded(p, voter, side) ==
    /\ voter \in DOMAIN proposals'[p][side]
    /\ ~(p \in DOMAIN proposals /\ voter \in DOMAIN proposals[p][side])

\* the weights stored with the votes of p before the step are still stored, unchanged
StoredWeightsKept(p) ==
    \A side \in {"supporters", "rejectors"} :
        \A voter \in DOMAIN proposals[p][side] :
            /\ voter \in DOMAIN proposals'[p][side]
            /\ proposals'[p][side][voter] = proposals[p][side][voter]

\* C31: the weight stored with a vote, the proposer's initial vote included, is
\* the voter's ledger score at the moment the vote is recorded, 100 for a voter
\* without a ledger entry; the stored weight never changes afterwards.
C31_VoteWeightIsLedgerScore ==
    [][\A p \in DOMAIN proposals' :
          /\ \A side \in {"supporters", "rejectors"}, voter \in Accounts :
                NewlyRecorded(p, voter, side)
                   => proposals'[p][side][voter] = ScoreOf(reputations, voter)
          /\ p \in DOMAIN proposals => StoredWeightsKept(p)]_vars

\* C31 with the weight the engine gives a voter without a ledger entry
C31_VoteWeightWithDefault ==
    [][\A p \in DOMAIN proposals' :
          /\ \A side \in {"supporters", "rejectors"}, voter \in Accounts :
                NewlyRecorded(p, voter, side)
                   => proposals'[p][side][voter] =
                         IF voter \in DOMAIN reputations THEN reputations[voter]
                         ELSE DefaultWeight
          /\ p \in DOMAIN proposals => StoredWeightsKept(p)]_vars

\* the proposal p the step creates is pending and holds its proposer's supporting
\* vote and no other vote
CreatedWithProposerVote(p) ==
    /\ proposals'[p].status = "pending"
    /\ DOMAIN proposals'[p].supporters = {proposals'[p].proposer}
    /\ DOMAIN proposals'[p].rejectors = {}

\* the proposer of every stored proposal is a supporter and not a rejector
ProposerIsSupporter ==
    \A p \in DOMAIN proposals :
        /\ proposals[p].proposer \in DOMAIN proposals[p].supporters
        /\ proposals[p].proposer \notin DOMAIN proposals[p].rejectors

\* C32 as stated: a proposal starts pending with its proposer's supporting vote
\* as its only vote, the proposer is a supporter and never a rejector, and every
\* later vote call of the proposer on it is rejected with DuplicateVote.
C32_ProposerVoteDuplicate ==
    /\ [][\A p \in DOMAIN proposals' :
            p \notin DOMAIN proposals => CreatedWithProposerVote(p)]_vars
    /\ []ProposerIsSupporter
    /\ [](\A p \in DOMAIN proposals :
            proposals[p].proposer = LocalAccount
               => voteResult(p, LocalAccount) = "DuplicateVote")

\* C32, amended: as above, but the proposer's later vote call is rejected with
\* DuplicateVote while the proposal is pending and its deadline has not passed,
\* and with ProposalNotPending or VotingExpired otherwise; a delivered vote of
\* the proposer leaves the vote maps as they are.
C32_ProposerVoteRefused ==
    /\ [][\A p \in DOMAIN proposals' :
            p \notin DOMAIN proposals => CreatedWithProposerVote(p)]_vars
    /\ []ProposerIsSupporter
    /\ [](\A p \in DOMAIN proposals :
            proposals[p].proposer = LocalAccount
               => voteResult(p, LocalAccount) =
                     IF proposals[p].status # "pending" THEN "ProposalNotPending"
                     ELSE IF now > proposals[p].deadline THEN "VotingExpired"
                     ELSE "DuplicateVote")
    /\ [][\A p \in DOMAIN proposals, support \in BOOLEAN :
            (\/ HandleRemoteVote(p, proposals[p].proposer, support)
             \/ (proposals[p].proposer = LocalAccount /\ VoteOnProposal(p, support)))
               => proposals' = proposals]_vars

\* C32 witness: a pending proposal of the local account, before its deadline, with
\* votes of others on both sides, on which the proposer's vote call fails with
\* DuplicateVote
C32_Witness ==
    \E p \in DOMAIN proposals :
        /\ proposals[p].proposer = LocalAccount
        /\ proposals[p].status = "pending"
        /\ now <= proposals[p].deadline
        /\ now >= 1
        /\ voteResult(p, LocalAccount) = "DuplicateVote"
        /\ Cardinality(DOMAIN proposals[p].supporters) >= 2
        /\ DOMAIN proposals[p].rejectors # {}

====
